---- MODULE Spec2Model ----
(***************************************************************************)
(* Shared-memory data publisher (Storage::Run) of the routing engine:      *)
(* the double-buffered publication protocol over two named shared memory   *)
(* regions, the named monitor cell {region, timestamp} with its mutex, the *)
(* datastore file lock, and clients that read the monitor and map the      *)
(* region it names. A second specification, SpecData, follows the sizer   *)
(* (PopulateLayout) and the populator (PopulateData) of one publish over   *)
(* its input files: block entry counts, canaries, connectivity checksums.  *)
(* SpecLayout applies the address arithmetic of DataLayout and both modes  *)
(* of GetBlockPtr to short layouts at the level of bytes. SpecWait is the  *)
(* protocol with clients that wait on the monitor's condition variable,    *)
(* under weak fairness and without process deaths. SpecWrite takes the     *)
(* write-mode calls and the payload writes of short layouts in every       *)
(* order, and SpecStale is the protocol started with regions left behind.  *)
(***************************************************************************)
EXTENDS Integers, Sequences, FiniteSets, TLC

\* ---------------------------------------------------------------- bounds
\* Number of Storage::Run invocations explored in one behaviour.
MaxRuns == 2

\* Two processes invoke Storage::Run, possibly at the same time; one client
\* process reads the monitor and maps regions.
Publishers == {1, 2}
Clients == {3}

\* ------------------------------------------------- enum SharedDataType
REGION_NONE == 0
REGION_1 == 1
REGION_2 == 2
Regions == {REGION_1, REGION_2}

\* --------------------------------- unsigned (32 bit) timestamp arithmetic
\* A timestamp is kept as two 16-bit halves so that the full 32-bit width
\* of `unsigned timestamp` is represented exactly.
HalfWord == 65536

U32(n) == [hi |-> n \div HalfWord, lo |-> n % HalfWord]

U32Max == [hi |-> HalfWord - 1, lo |-> HalfWord - 1]

\* t + 1 in unsigned 32-bit arithmetic (wraps to 0 after 2^32 - 1).
Inc32(t) ==
    IF t.lo + 1 < HalfWord THEN [hi |-> t.hi, lo |-> t.lo + 1]
    ELSE [hi |-> (t.hi + 1) % HalfWord, lo |-> 0]

Less32(a, b) == a.hi < b.hi \/ (a.hi = b.hi /\ a.lo < b.lo)

\* Values of the max_wait argument of Storage::Run: wait forever (< 0) or
\* wait until a deadline (>= 0, of which 0 is the shortest). The code only
\* tests the sign; the deadline passing is the step TimedLockExpired.
MaxWaits == {-1, 0}

VARIABLES
    fileLock,   \* holder of the osrm-datastore.lock file lock, 0 when free
    monitors,   \* every monitor object created so far: {region, timestamp, mutex}
    monName,    \* index of the monitor the name "osrm-region" resolves to, 0 if none
    shmKey,     \* region id -> index of the segment the id resolves to, 0 if none
    segs,       \* every shared memory segment created so far
    pub,        \* per publisher: position in Storage::Run and its locals
    cli,        \* per client: position in the client protocol and its locals
    hist        \* history: start state, runs started, publishes completed

\* The sizing and populating of one region (PopulateLayout, PopulateData).
VARIABLES
    config,     \* the input files of the publish
    layout,     \* DataLayout: per block, the entry count set by the sizer
    memory,     \* the region: whether it exists, and both canaries of each block
    turns_connectivity_checksum,    \* local of PopulateData
    dpc         \* position in PopulateLayout / PopulateData

pvars == <<fileLock, monitors, monName, shmKey, segs, pub, cli, hist>>

dvars == <<config, layout, memory, turns_connectivity_checksum, dpc>>

\* The layout arithmetic of DataLayout is checked on its own, over every
\* short layout and every base address, with the region as an array of bytes.
VARIABLES
    blocks,     \* DataLayout::blocks of the layout under test
    base,       \* address of the first byte behind the copied layout
    bytes,      \* the bytes of the address space, by address
    result,     \* outcome of the last read-mode GetBlockPtr call
    written,    \* per block: pointer not asked for, pointer given, filled
    lpc         \* position in the sequence of GetBlockPtr calls

lvars == <<blocks, base, bytes, result, written, lpc>>

vars == <<pvars, dvars, lvars>>

\* --------------------------------------------------------- shared memory
\* A segment as the kernel sees it: the writer's progress on its content,
\* whether it is marked for destruction, and the attached processes.
NewSegment(region, proc) ==
    [region |-> region, status |-> "allocated", removed |-> FALSE, att |-> {proc}]

RegionExists(region) == shmKey[region] # 0

\* shmctl(IPC_RMID): the id stops resolving at once; the segment is destroyed
\* when nothing is attached, otherwise when the last process detaches.
MarkedForRemoval(S, i) ==
    [S EXCEPT ![i].removed = TRUE,
              ![i].status = IF S[i].att = {} THEN "destroyed" ELSE @]

Attached(S, i, proc) == [S EXCEPT ![i].att = @ \cup {proc}]

\* proc drops every handle it holds (handle destructors, or process exit).
Detached(S, proc) ==
    [i \in DOMAIN S |->
        IF proc \in S[i].att
        THEN [S[i] EXCEPT !.att = @ \ {proc},
                          !.status = IF S[i].removed /\ S[i].att = {proc}
                                     THEN "destroyed" ELSE @]
        ELSE S[i]]

NumAttached(i) == Cardinality(segs[i].att)

\* ---------------------------------------------------------------- monitor
NewMonitor(region, timestamp) ==
    [region |-> region, timestamp |-> timestamp, mutex |-> 0]

\* -------------------------------------------------------------- publisher
IdlePublisher ==
    [pc |-> "idle", max_wait |-> -1, monitor |-> 0,
     in_use_region |-> REGION_NONE, next_timestamp |-> U32(0),
     next_region |-> REGION_NONE, owns |-> FALSE,
     data_memory |-> 0, in_use_shared_memory |-> 0,
     pre |-> [region |-> REGION_NONE, timestamp |-> U32(0), seg |-> 0,
              key |-> [r \in Regions |-> 0]],
     timed_out |-> FALSE, notified |-> FALSE]

IdleClient ==
    [pc |-> "idle", monitor |-> 0, region |-> REGION_NONE,
     timestamp |-> U32(0), seg |-> 0, readSeg |-> 0, readCurrent |-> FALSE,
     waited |-> FALSE]

\* A populated segment as left by an earlier successful publish.
PublishedSegment(region) ==
    [region |-> region, status |-> "populated", removed |-> FALSE, att |-> {}]

\* Cold start: no monitor, no regions.
InitCold ==
    /\ monitors = <<>>
    /\ monName = 0
    /\ shmKey = [r \in Regions |-> 0]
    /\ segs = <<>>
    /\ hist = [cold |-> TRUE, clean |-> TRUE, runs |-> 0, published |-> 0]

\* A long-running deployment: 2^32 - 1 publishes have completed, the
\* monitor names REGION_1, which exists and is populated.
InitLongRunning ==
    /\ monitors = <<NewMonitor(REGION_1, U32Max)>>
    /\ monName = 1
    /\ shmKey = [r \in Regions |-> IF r = REGION_1 THEN 1 ELSE 0]
    /\ segs = <<PublishedSegment(REGION_1)>>
    /\ hist = [cold |-> FALSE, clean |-> TRUE, runs |-> 0, published |-> 0]

\* ====================================================== data of a region
\* ------------------------------------------------------------- bounds
\* Largest metric count an input file declares: one more than NUM_METRICS.
MaxMetricCount == 9

\* static const constexpr std::size_t NUM_METRICS = 8;
NUM_METRICS == 8

\* Mutant: the tag is 'O', 'R', 'S', 'M'.
CANARY_ORSM == <<79, 82, 83, 77>>

\* const constexpr char CANARY[4] = {'O', 'S', 'R', 'M'}; as ASCII codes.
CANARY == <<79, 83, 82, 77>>

\* Four bytes of a freshly created shared memory segment.
ZeroBytes == <<0, 0, 0, 0>>

\* enum DataLayout::BlockID, in declaration order.
BlockID ==
    << "NAME_CHAR_DATA", "EDGE_BASED_NODE_DATA_LIST",
        "ANNOTATION_DATA_LIST", "CH_GRAPH_NODE_LIST", "CH_GRAPH_EDGE_LIST",
        "CH_EDGE_FILTER_0", "CH_EDGE_FILTER_1", "CH_EDGE_FILTER_2",
        "CH_EDGE_FILTER_3", "CH_EDGE_FILTER_4", "CH_EDGE_FILTER_5",
        "CH_EDGE_FILTER_6", "CH_EDGE_FILTER_7", "COORDINATE_LIST",
        "OSM_NODE_ID_LIST", "TURN_INSTRUCTION", "ENTRY_CLASSID",
        "R_SEARCH_TREE", "R_SEARCH_TREE_LEVELS", "GEOMETRIES_INDEX",
        "GEOMETRIES_NODE_LIST", "GEOMETRIES_FWD_WEIGHT_LIST",
        "GEOMETRIES_REV_WEIGHT_LIST", "GEOMETRIES_FWD_DURATION_LIST",
        "GEOMETRIES_REV_DURATION_LIST", "GEOMETRIES_FWD_DATASOURCES_LIST",
        "GEOMETRIES_REV_DATASOURCES_LIST", "HSGR_CHECKSUM", "TIMESTAMP",
        "FILE_INDEX_PATH", "DATASOURCES_NAMES", "PROPERTIES",
        "BEARING_CLASSID", "BEARING_OFFSETS", "BEARING_BLOCKS",
        "BEARING_VALUES", "ENTRY_CLASS", "LANE_DATA_ID",
        "PRE_TURN_BEARING", "POST_TURN_BEARING", "TURN_LANE_DATA",
        "LANE_DESCRIPTION_OFFSETS", "LANE_DESCRIPTION_MASKS",
        "TURN_WEIGHT_PENALTIES", "TURN_DURATION_PENALTIES",
        "MLD_LEVEL_DATA", "MLD_PARTITION", "MLD_CELL_TO_CHILDREN",
        "MLD_CELL_WEIGHTS_0", "MLD_CELL_WEIGHTS_1", "MLD_CELL_WEIGHTS_2",
        "MLD_CELL_WEIGHTS_3", "MLD_CELL_WEIGHTS_4", "MLD_CELL_WEIGHTS_5",
        "MLD_CELL_WEIGHTS_6", "MLD_CELL_WEIGHTS_7", "MLD_CELL_DURATIONS_0",
        "MLD_CELL_DURATIONS_1", "MLD_CELL_DURATIONS_2",
        "MLD_CELL_DURATIONS_3", "MLD_CELL_DURATIONS_4",
        "MLD_CELL_DURATIONS_5", "MLD_CELL_DURATIONS_6",
        "MLD_CELL_DURATIONS_7", "MLD_CELL_SOURCE_BOUNDARY",
        "MLD_CELL_DESTINATION_BOUNDARY", "MLD_CELLS",
        "MLD_CELL_LEVEL_OFFSETS", "MLD_GRAPH_NODE_LIST",
        "MLD_GRAPH_EDGE_LIST", "MLD_GRAPH_NODE_TO_OFFSET",
        "MANEUVER_OVERRIDES", "MANEUVER_OVERRIDE_NODE_SEQUENCES" >>

NUM_BLOCKS == Len(BlockID)

BlockIDs == {BlockID[i] : i \in 1..NUM_BLOCKS}

\* The enumerator value of a block id, and the id with a given value.
Value(bid) == (CHOOSE i \in 1..NUM_BLOCKS : BlockID[i] = bid) - 1

Enumerator(v) == BlockID[v + 1]

\* static_cast<DataLayout::BlockID>(DataLayout::CH_EDGE_FILTER_0 + index)
CH_EDGE_FILTER(index) == Enumerator(Value("CH_EDGE_FILTER_0") + index)

\* static_cast<DataLayout::BlockID>(DataLayout::MLD_CELL_WEIGHTS_0 + index)
MLD_CELL_WEIGHTS(index) == Enumerator(Value("MLD_CELL_WEIGHTS_0") + index)

\* static_cast<DataLayout::BlockID>(DataLayout::MLD_CELL_DURATIONS_0 + index)
MLD_CELL_DURATIONS(index) == Enumerator(Value("MLD_CELL_DURATIONS_0") + index)

\* ------------------------------------------------------------ input files
\* Connectivity checksums stored in the input files; 0 is also the value
\* turns_connectivity_checksum is initialised with.
Checksums == {0, 1}

MetricCounts == 0..MaxMetricCount

\* .osrm.hsgr: absent, or a checksum, node and edge arrays and a metric count.
HsgrFiles ==
    {[exists |-> FALSE, connectivity_checksum |-> 0, num_nodes |-> 0,
      num_edges |-> 0, num_metrics |-> 0]}
    \cup {[exists |-> TRUE, connectivity_checksum |-> c, num_nodes |-> 2,
           num_edges |-> 3, num_metrics |-> n] :
              c \in Checksums, n \in MetricCounts}

\* .osrm.cell_metrics: absent, or a metric count followed by one weights and
\* one durations vector per metric; metric index holds index + 1 weights and
\* index + 2 durations.
CellMetricsFiles ==
    {[exists |-> FALSE, num_metric |-> 0]}
    \cup {[exists |-> TRUE, num_metric |-> n] : n \in MetricCounts}

weights_count(index) == index + 1

durations_count(index) == index + 2

\* .osrm.mldgr: absent, or node, edge and offset arrays and a checksum.
MldgrFiles ==
    {[exists |-> FALSE, connectivity_checksum |-> 0]}
    \cup {[exists |-> TRUE, connectivity_checksum |-> c] : c \in Checksums}

\* The input files of one publish: the optional ones, and the connectivity
\* checksum of the mandatory .osrm.edges.
\* .osrm.geometry: the block counts of the forward and of the reverse
\* segment weight vector; a well-formed file declares the same count twice.
GeometryFiles ==
    {[number_of_segment_weight_blocks |-> 2, number_of_rev_weight_blocks |-> r] :
        r \in {2, 3}}

Configs ==
    [hsgr : HsgrFiles, partition : BOOLEAN, cells : BOOLEAN,
     cell_metrics : CellMetricsFiles, mldgr : MldgrFiles,
     edges : [connectivity_checksum : Checksums],
     geometry : GeometryFiles]

\* Entry counts of the blocks of a present file. The turn lane file holds no
\* lane tuples: TURN_LANE_DATA is a zero-entry block of a present file. The
\* sizer gives four blocks one entry whatever the file says
\* (storage.cpp:283, 328, 420, 481); every other file declares two entries.
Entries(bid) ==
    IF bid = "TURN_LANE_DATA" THEN 0
    ELSE IF bid \in {"HSGR_CHECKSUM", "PROPERTIES", "DATASOURCES_NAMES",
                     "MLD_LEVEL_DATA"} THEN 1
    ELSE 2

\* ------------------------------------------------------------- DataLayout
\* DataLayout() : blocks{} {}: every block zero-initialised. sets counts
\* the SetBlock calls made for the block.
NewDataLayout ==
    [b \in BlockIDs |-> [num_entries |-> 0, byte_size |-> 0, entry_size |-> 0,
                         entry_align |-> 0, sets |-> 0]]

\* The entry type T of make_block<T> for a block sized from its file: char
\* for the three text blocks (storage.cpp:219, 226, 336), and one stand-in,
\* "entry", for the integer and record types of all other blocks.
EntryType(bid) ==
    IF bid \in {"FILE_INDEX_PATH", "NAME_CHAR_DATA", "TIMESTAMP"}
    THEN "char" ELSE "entry"

\* sizeof(T) and alignof(T): 1 for char, a 32 bit word for the stand-in.
sizeof(T) == IF T = "char" THEN 1 ELSE 4

alignof(T) == IF T = "char" THEN 1 ELSE 4

\* make_block<T>(num_entries)
make_block(T, num_entries) ==
    [num_entries |-> num_entries, byte_size |-> sizeof(T) * num_entries,
     entry_size |-> sizeof(T), entry_align |-> alignof(T)]

\* inline void SetBlock(BlockID bid, Block block), called with
\* make_block<T>(num_entries)
SetBlock(L, bid, T, num_entries) ==
    LET block == make_block(T, num_entries)
    IN [L EXCEPT ![bid] = [num_entries |-> block.num_entries,
                           byte_size |-> block.byte_size,
                           entry_size |-> block.entry_size,
                           entry_align |-> block.entry_align,
                           sets |-> @.sets + 1]]

\* SetBlock(bid, make_block<T>(n)) for each block id of a sequence, with
\* the entry count the block's file declares.
RECURSIVE SetBlocksFromFiles(_, _)
SetBlocksFromFiles(L, bids) ==
    IF bids = <<>> THEN L
    ELSE SetBlocksFromFiles(
             SetBlock(L, Head(bids), EntryType(Head(bids)), Entries(Head(bids))),
             Tail(bids))

\* A variant that sets none of the blocks.
SetBlocksEmpty_Skip(L, bids) == L

\* SetBlock(bid, make_block<T>(0)) for each block id of a sequence.
RECURSIVE SetBlocksEmpty(_, _)
SetBlocksEmpty(L, bids) ==
    IF bids = <<>> THEN L
    ELSE SetBlocksEmpty(SetBlock(L, Head(bids), EntryType(Head(bids)), 0),
                        Tail(bids))

\* A variant that gives the blocks of an absent file one entry each.
RECURSIVE SetBlocksEmptyChar_One(_, _)
SetBlocksEmptyChar_One(L, bids) ==
    IF bids = <<>> THEN L
    ELSE SetBlocksEmptyChar_One(SetBlock(L, Head(bids), "char", 1), Tail(bids))

\* SetBlock(bid, make_block<char>(0)) for each block id of a sequence
\* (storage.cpp:516-519, 557-572).
RECURSIVE SetBlocksEmptyChar(_, _)
SetBlocksEmptyChar(L, bids) ==
    IF bids = <<>> THEN L
    ELSE SetBlocksEmptyChar(SetBlock(L, Head(bids), "char", 0), Tail(bids))

\* for (index : irange(from, to))
\*     layout.SetBlock(CH_EDGE_FILTER_0 + index, make_block<unsigned>(n));
RECURSIVE SetEdgeFilters(_, _, _, _)
SetEdgeFilters(L, from, to, n) ==
    IF from >= to THEN L
    ELSE SetEdgeFilters(SetBlock(L, CH_EDGE_FILTER(from), "entry", n),
                        from + 1, to, n)

\* for (index : irange(0, num_metric)) { weights_count = ReadVectorSize();
\*     SetBlock(MLD_CELL_WEIGHTS_0 + index, make_block(weights_count));
\*     durations_count = ReadVectorSize();
\*     SetBlock(MLD_CELL_DURATIONS_0 + index, make_block(durations_count)); }
RECURSIVE SetCellMetrics(_, _, _)
SetCellMetrics(L, from, to) ==
    IF from >= to THEN L
    ELSE SetCellMetrics(
             SetBlock(SetBlock(L, MLD_CELL_WEIGHTS(from), "entry",
                               weights_count(from)),
                      MLD_CELL_DURATIONS(from), "entry", durations_count(from)),
             from + 1, to)

\* for (index : irange(num_metric, NUM_METRICS)) { SetBlock(MLD_CELL_WEIGHTS_0
\*     + index, make_block(0)); SetBlock(MLD_CELL_DURATIONS_0 + index, ...); }
RECURSIVE SetCellMetricsEmpty(_, _, _)
SetCellMetricsEmpty(L, from, to) ==
    IF from >= to THEN L
    ELSE SetCellMetricsEmpty(
             SetBlock(SetBlock(L, MLD_CELL_WEIGHTS(from), "entry", 0),
                      MLD_CELL_DURATIONS(from), "entry", 0),
             from + 1, to)

\* The canaries of a region that has not been created.
NoMemory ==
    [exists |-> FALSE,
     size |-> 0,
     descriptor |-> <<>>,
     start |-> [b \in BlockIDs |-> ZeroBytes],
     end |-> [b \in BlockIDs |-> ZeroBytes]]

\* makeSharedMemory(next_region, regions_size): a fresh, zero-filled segment.
FreshMemory == [NoMemory EXCEPT !.exists = TRUE]

\* GetBlockPtr<T, true>(memory_ptr, bid): std::copy of CANARY to the four
\* bytes before the block and to the four bytes after it.
GetBlockPtrWrite(M, bid) ==
    [M EXCEPT !.start[bid] = CANARY, !.end[bid] = CANARY]

RECURSIVE WriteCanaries(_, _)
WriteCanaries(M, bids) ==
    IF bids = <<>> THEN M
    ELSE WriteCanaries(GetBlockPtrWrite(M, Head(bids)), Tail(bids))

\* for (index : irange(0, NUM_METRICS))
\*     layout.GetBlockPtr<unsigned, true>(memory_ptr, CH_EDGE_FILTER_0 + index);
RECURSIVE WriteEdgeFilterCanaries(_, _, _)
WriteEdgeFilterCanaries(M, from, to) ==
    IF from >= to THEN M
    ELSE WriteEdgeFilterCanaries(GetBlockPtrWrite(M, CH_EDGE_FILTER(from)),
                                 from + 1, to)

\* for (index : irange(0, NUM_METRICS)) { GetBlockPtr<EdgeWeight, true>(
\*     memory_ptr, weights_block_id); GetBlockPtr<EdgeDuration, true>(
\*     memory_ptr, durations_block_id); }
RECURSIVE WriteCellMetricCanaries(_, _, _)
WriteCellMetricCanaries(M, from, to) ==
    IF from >= to THEN M
    ELSE WriteCellMetricCanaries(
             GetBlockPtrWrite(GetBlockPtrWrite(M, MLD_CELL_WEIGHTS(from)),
                              MLD_CELL_DURATIONS(from)),
             from + 1, to)

\* The input files while no sizing or populating is modelled: no optional
\* file.
NoOptionalFiles ==
    [hsgr |-> [exists |-> FALSE, connectivity_checksum |-> 0, num_nodes |-> 0,
               num_edges |-> 0, num_metrics |-> 0],
     partition |-> FALSE, cells |-> FALSE,
     cell_metrics |-> [exists |-> FALSE, num_metric |-> 0],
     mldgr |-> [exists |-> FALSE, connectivity_checksum |-> 0],
     edges |-> [connectivity_checksum |-> 0],
     geometry |-> [number_of_segment_weight_blocks |-> 2,
                   number_of_rev_weight_blocks |-> 2]]

\* ------------------------------------------------- DataLayout, byte level
\* Largest base address tried; the bases are 0 .. MaxBase.
MaxBase == 3

\* The layouts under test have three blocks; the functions below take the
\* block array as a sequence, block id i at position i + 1.
LayoutBlockIDs == {0, 1, 2}

\* Byte sizes and alignments of the blocks under test: an empty block and one
\* whose size is no multiple of any alignment; alignments of char, of
\* 32 and 64 bit integers, and one that is not a power of two.
ByteSizes == {0, 3}

Alignments == {1, 3, 4, 8}

Block(byte_size, entry_align) ==
    [byte_size |-> byte_size, entry_align |-> entry_align]

Layouts == [{i + 1 : i \in LayoutBlockIDs} ->
                {Block(s, a) : s \in ByteSizes, a \in Alignments}]

IsPowerOfTwo(a) == a \in {1, 2, 4, 8, 16}

\* Bitwise and of two naturals.
RECURSIVE BitAnd(_, _)
BitAnd(x, y) ==
    IF x = 0 \/ y = 0 THEN 0
    ELSE (x % 2) * (y % 2) + 2 * BitAnd(x \div 2, y \div 2)

\* sizeof(CANARY)
SizeOfCanary == Len(CANARY)

\* A variant of align that rounds the pointer down.
align_Down(a, ptr) ==
    IF a = 0 THEN 0 ELSE ptr - BitAnd(ptr, a - 1)

\* A variant of align that leaves the pointer as it is.
align_Identity(a, ptr) == ptr

\* align, shared_datatype.hpp:202-207: (intptr - 1u + align) & -align, where
\* -align is the complement of align - 1, so the and clears the bits of
\* align - 1; an alignment of 0 makes -align zero and the result null.
align(a, ptr) ==
    IF a = 0 THEN 0
    ELSE LET intptr == ptr - 1 + a IN intptr - BitAnd(intptr, a - 1)

GetBlockSize(B, bid) == B[bid + 1].byte_size

\* A variant of GetSizeOfLayout without the alignment slack.
RECURSIVE LayoutSize_NoSlack(_, _)
LayoutSize_NoSlack(B, i) ==
    IF i = Len(B) THEN 0
    ELSE 2 * SizeOfCanary + GetBlockSize(B, i) + LayoutSize_NoSlack(B, i + 1)

\* The loop of GetSizeOfLayout from block i on.
RECURSIVE LayoutSize(_, _)
LayoutSize(B, i) ==
    IF i = Len(B) THEN 0
    ELSE 2 * SizeOfCanary + GetBlockSize(B, i) + B[i + 1].entry_align
         + LayoutSize(B, i + 1)

\* GetSizeOfLayout, shared_datatype.hpp:187-196.
GetSizeOfLayout(B) == LayoutSize(B, 0)

\* A variant of the loop that steps over the payload of a block but not over
\* its end canary.
RECURSIVE AlignedBlockPtr_NoEndCanary(_, _, _, _)
AlignedBlockPtr_NoEndCanary(B, ptr, i, bid) ==
    IF i < bid
    THEN AlignedBlockPtr_NoEndCanary(B,
             align(B[i + 1].entry_align, ptr + SizeOfCanary)
                 + GetBlockSize(B, i),
             i + 1, bid)
    ELSE align(B[bid + 1].entry_align, ptr + SizeOfCanary)

\* The loop of GetAlignedBlockPtr over the blocks i .. bid - 1, then the
\* start canary and the alignment of block bid itself.
RECURSIVE AlignedBlockPtr(_, _, _, _)
AlignedBlockPtr(B, ptr, i, bid) ==
    IF i < bid
    THEN AlignedBlockPtr(B,
             align(B[i + 1].entry_align, ptr + SizeOfCanary)
                 + GetBlockSize(B, i) + SizeOfCanary,
             i + 1, bid)
    ELSE align(B[bid + 1].entry_align, ptr + SizeOfCanary)

\* A variant that returns the offset from address 0 whatever the base is.
GetAlignedBlockPtr_FromZero(B, ptr, bid) == AlignedBlockPtr(B, 0, 0, bid)

\* GetAlignedBlockPtr, shared_datatype.hpp:209-222.
GetAlignedBlockPtr(B, ptr, bid) == AlignedBlockPtr(B, ptr, 0, bid)

\* GetBlockEnd, shared_datatype.hpp:224-228.
GetBlockEnd(B, ptr, bid) == GetAlignedBlockPtr(B, ptr, bid) + GetBlockSize(B, bid)

\* The bytes the model keeps: the region and as many bytes again behind it.
AddressSpace(B, ptr) == 0 .. (ptr + 2 * GetSizeOfLayout(B))

\* std::copy(CANARY, CANARY + sizeof(CANARY), at)
CopyCanary(M, at) ==
    [a \in DOMAIN M |->
        IF a >= at /\ a < at + SizeOfCanary THEN CANARY[a - at + 1] ELSE M[a]]

\* std::equal(CANARY, CANARY + sizeof(CANARY), at)
EqualCanary(M, at) ==
    \A k \in 1 .. SizeOfCanary :
        (at + k - 1) \in DOMAIN M /\ M[at + k - 1] = CANARY[k]

NoResult == [ptr |-> 0, thrown |-> "", bid |-> 0]

\* GetBlockPtr<T, true>, shared_datatype.hpp:230-242: the memory after both
\* canaries are copied; the pointer returned is GetAlignedBlockPtr.
StampCanaries(B, M, ptr, bid) ==
    CopyCanary(CopyCanary(M, GetAlignedBlockPtr(B, ptr, bid) - SizeOfCanary),
               GetBlockEnd(B, ptr, bid))

\* A variant of the read mode that looks at the end canary first.
GetBlockPtrRead_EndFirst(B, M, ptr, bid) ==
    LET p == GetAlignedBlockPtr(B, ptr, bid) IN
    IF ~EqualCanary(M, GetBlockEnd(B, ptr, bid))
    THEN [ptr |-> 0, thrown |-> "End canary of block corrupted.", bid |-> bid]
    ELSE IF ~EqualCanary(M, p - SizeOfCanary)
    THEN [ptr |-> 0, thrown |-> "Start canary of block corrupted.", bid |-> bid]
    ELSE [ptr |-> p, thrown |-> "", bid |-> bid]

\* GetBlockPtr<T, false>, shared_datatype.hpp:243-259: the start canary is
\* compared first, then the end canary; the message carries the block name.
GetBlockPtrRead(B, M, ptr, bid) ==
    LET p == GetAlignedBlockPtr(B, ptr, bid) IN
    IF ~EqualCanary(M, p - SizeOfCanary)
    THEN [ptr |-> 0, thrown |-> "Start canary of block corrupted.", bid |-> bid]
    ELSE IF ~EqualCanary(M, GetBlockEnd(B, ptr, bid))
    THEN [ptr |-> 0, thrown |-> "End canary of block corrupted.", bid |-> bid]
    ELSE [ptr |-> p, thrown |-> "", bid |-> bid]

\* The state of the layout variables while no layout is under test.
LayoutIdle ==
    /\ blocks = <<>>
    /\ base = 0
    /\ bytes = <<>>
    /\ result = NoResult
    /\ written = <<>>
    /\ lpc = "idle"

\* The state of the data variables while no sizing or populating is modelled.
DataIdle ==
    /\ config = NoOptionalFiles
    /\ layout = NewDataLayout
    /\ memory = NoMemory
    /\ turns_connectivity_checksum = 0
    /\ dpc = "idle"

Init ==
    /\ DataIdle
    /\ LayoutIdle
    /\ fileLock = 0
    /\ pub = [p \in Publishers |-> IdlePublisher]
    /\ cli = [c \in Clients |-> IdleClient]
    /\ (InitCold \/ InitLongRunning)

\* ------------------------------------------------------------ Storage::Run
Set(p, f, v) == [pub EXCEPT ![p][f] = v]

\* The monitor object publisher p holds open.
Mon(p) == monitors[pub[p].monitor]

\* The monitor the name "osrm-region" resolves to.
NamedMonitor == monitors[monName]

\* Mutant: the file lock is granted although another process holds it.
FileLockFree_Always == TRUE

\* file_lock.try_lock() / lock(): granted only while no process holds it.
FileLockFree == fileLock = 0

\* Mutant: the branches of the conditional are swapped.
NextRegion_Swapped(in_use_region) ==
    IF in_use_region = REGION_2 \/ in_use_region = REGION_NONE
    THEN REGION_2 ELSE REGION_1

\* Mutant: the publisher always writes to REGION_1.
NextRegion_AlwaysFirst(in_use_region) == REGION_1

\* auto next_region = in_use_region == REGION_2 || in_use_region == REGION_NONE
\*                        ? REGION_1 : REGION_2;
NextRegion(in_use_region) ==
    IF in_use_region = REGION_2 \/ in_use_region = REGION_NONE
    THEN REGION_1 ELSE REGION_2

\* Mutant: the timestamp is not incremented.
NextTimestamp_Same(timestamp) == timestamp

\* auto next_timestamp = monitor.data().timestamp + 1;
NextTimestamp(timestamp) == Inc32(timestamp)

\* Storage::Run is invoked with some max_wait.
RunStart(p) ==
    /\ pub[p].pc = "idle"
    /\ hist.runs < MaxRuns
    /\ \E mw \in MaxWaits :
          pub' = [pub EXCEPT ![p] = [IdlePublisher EXCEPT !.pc = "file_lock",
                                                          !.max_wait = mw]]
    /\ hist' = [hist EXCEPT !.runs = @ + 1]
    /\ UNCHANGED <<fileLock, monitors, monName, shmKey, segs, cli>>
    /\ UNCHANGED <<dvars, lvars>>

\* datastore_lock.try_lock(), else the blocking datastore_lock.lock().
AcquireFileLock(p) ==
    /\ pub[p].pc = "file_lock"
    /\ FileLockFree
    /\ fileLock' = p
    /\ pub' = Set(p, "pc", "read_monitor")
    /\ UNCHANGED <<monitors, monName, shmKey, segs, cli, hist>>
    /\ UNCHANGED <<dvars, lvars>>

\* Monitor monitor(SharedDataTimestamp{REGION_NONE, 0}) opens the named
\* monitor, creating it with the initial data when absent; the region and
\* timestamp are then read without taking the mutex.
ReadMonitor(p) ==
    /\ pub[p].pc = "read_monitor"
    /\ LET mons == IF monName = 0
                   THEN Append(monitors, NewMonitor(REGION_NONE, U32(0)))
                   ELSE monitors
           m == IF monName = 0 THEN Len(mons) ELSE monName
           data == mons[m]
       IN /\ monitors' = mons
          /\ monName' = m
          /\ pub' = [pub EXCEPT ![p].pc = "remove_stale",
                                ![p].monitor = m,
                                ![p].in_use_region = data.region,
                                ![p].next_timestamp = NextTimestamp(data.timestamp),
                                ![p].next_region = NextRegion(data.region),
                                ![p].pre = [region |-> data.region,
                                            timestamp |-> data.timestamp,
                                            seg |-> IF data.region = REGION_NONE
                                                    THEN 0
                                                    ELSE shmKey[data.region],
                                            key |-> shmKey]]
    /\ UNCHANGED <<fileLock, shmKey, segs, cli, hist>>
    /\ UNCHANGED <<dvars, lvars>>

\* Mutant: the stale check and removal use in_use_region.
RemoveStale_InUse(p) ==
    /\ pub[p].pc = "remove_stale"
    /\ LET r == pub[p].in_use_region
       IN IF r # REGION_NONE /\ RegionExists(r)
          THEN /\ segs' = MarkedForRemoval(segs, shmKey[r])
               /\ shmKey' = [shmKey EXCEPT ![r] = 0]
          ELSE UNCHANGED <<segs, shmKey>>
    /\ pub' = [pub EXCEPT ![p].pc = "populate_layout"]
    /\ UNCHANGED <<fileLock, monitors, monName, cli, hist>>
    /\ UNCHANGED <<dvars, lvars>>

\* Mutant: a next region left by a failed publish is not removed.
RemoveStale_Skip(p) ==
    /\ pub[p].pc = "remove_stale"
    /\ pub' = Set(p, "pc", "populate_layout")
    /\ UNCHANGED <<fileLock, monitors, monName, shmKey, segs, cli, hist>>
    /\ UNCHANGED <<dvars, lvars>>

\* if (RegionExists(next_region)) Remove(next_region);
RemoveStale(p) ==
    /\ pub[p].pc = "remove_stale"
    /\ LET next == pub[p].next_region
       IN IF RegionExists(next)
          THEN /\ segs' = MarkedForRemoval(segs, shmKey[next])
               /\ shmKey' = [shmKey EXCEPT ![next] = 0]
          ELSE UNCHANGED <<segs, shmKey>>
    /\ pub' = Set(p, "pc", "populate_layout")
    /\ UNCHANGED <<fileLock, monitors, monName, cli, hist>>
    /\ UNCHANGED <<dvars, lvars>>

\* An exception leaves Storage::Run: the handles and the file lock held by
\* the invocation are released by their destructors.
\* A variant that leaves the file lock with the publisher.
Unwound_KeepsFileLock(p) ==
    /\ pub' = [pub EXCEPT ![p] = IdlePublisher]
    /\ fileLock' = fileLock

Unwound(p) ==
    /\ pub' = [pub EXCEPT ![p] = IdlePublisher]
    /\ fileLock' = IF fileLock = p THEN 0 ELSE fileLock

\* PopulateLayout(layout) sizes every block from the input files.
PopulateLayout(p) ==
    /\ pub[p].pc = "populate_layout"
    /\ pub' = Set(p, "pc", "allocate")
    /\ UNCHANGED <<fileLock, monitors, monName, shmKey, segs, cli, hist>>
    /\ UNCHANGED <<dvars, lvars>>

\* PopulateLayout throws (fingerprint mismatch, too many metrics, ...).
PopulateLayoutThrows(p) ==
    /\ pub[p].pc = "populate_layout"
    /\ Unwound(p)
    /\ segs' = Detached(segs, p)
    /\ hist' = [hist EXCEPT !.clean = FALSE]
    /\ UNCHANGED <<monitors, monName, shmKey, cli>>
    /\ UNCHANGED <<dvars, lvars>>

\* auto data_memory = makeSharedMemory(next_region, regions_size);
Allocate(p) ==
    /\ pub[p].pc = "allocate"
    /\ segs' = Append(segs, NewSegment(pub[p].next_region, p))
    /\ shmKey' = [shmKey EXCEPT ![pub[p].next_region] = Len(segs) + 1]
    /\ pub' = [pub EXCEPT ![p].pc = "copy_layout",
                          ![p].data_memory = Len(segs) + 1]
    /\ UNCHANGED <<fileLock, monitors, monName, cli, hist>>
    /\ UNCHANGED <<dvars, lvars>>

\* makeSharedMemory throws: the OS refuses the segment.
AllocateThrows(p) ==
    /\ pub[p].pc = "allocate"
    /\ Unwound(p)
    /\ segs' = Detached(segs, p)
    /\ hist' = [hist EXCEPT !.clean = FALSE]
    /\ UNCHANGED <<monitors, monName, shmKey, cli>>
    /\ UNCHANGED <<dvars, lvars>>

\* Mutant: the monitor update follows the layout copy; PopulateData is not
\* run before it.
CopyLayout_ThenPublish(p) ==
    /\ pub[p].pc = "copy_layout"
    /\ segs' = [segs EXCEPT ![pub[p].data_memory].status = "layout"]
    /\ pub' = [pub EXCEPT ![p].pc = "lock"]
    /\ UNCHANGED <<fileLock, monitors, monName, shmKey, cli, hist>>
    /\ UNCHANGED <<dvars, lvars>>

\* memcpy(shared_memory_ptr, &layout, sizeof(layout));
CopyLayout(p) ==
    /\ pub[p].pc = "copy_layout"
    /\ segs' = [segs EXCEPT ![pub[p].data_memory].status = "layout"]
    /\ pub' = Set(p, "pc", "populate_data")
    /\ UNCHANGED <<fileLock, monitors, monName, shmKey, cli, hist>>
    /\ UNCHANGED <<dvars, lvars>>

\* Mutant: PopulateData returns with the payload only partly written.
PopulateData_Incomplete(p) ==
    /\ pub[p].pc = "populate_data"
    /\ segs' = [segs EXCEPT ![pub[p].data_memory].status = "partial"]
    /\ pub' = [pub EXCEPT ![p].pc = "lock"]
    /\ UNCHANGED <<fileLock, monitors, monName, shmKey, cli, hist>>
    /\ UNCHANGED <<dvars, lvars>>

\* PopulateData(layout, shared_memory_ptr + sizeof(layout)) returns.
PopulateData(p) ==
    /\ pub[p].pc = "populate_data"
    /\ segs' = [segs EXCEPT ![pub[p].data_memory].status = "populated"]
    /\ pub' = Set(p, "pc", "lock")
    /\ UNCHANGED <<fileLock, monitors, monName, shmKey, cli, hist>>
    /\ UNCHANGED <<dvars, lvars>>

\* PopulateData throws part-way (e.g. connectivity checksum mismatch): the
\* region stays, partially written.
PopulateDataThrows(p) ==
    /\ pub[p].pc = "populate_data"
    /\ Unwound(p)
    /\ segs' = Detached([segs EXCEPT ![pub[p].data_memory].status = "partial"], p)
    /\ hist' = [hist EXCEPT !.clean = FALSE]
    /\ UNCHANGED <<monitors, monName, shmKey, cli>>
    /\ UNCHANGED <<dvars, lvars>>

\* max_wait < 0: lock.lock() blocks until the monitor mutex is free.
LockMonitor(p) ==
    /\ pub[p].pc = "lock"
    /\ pub[p].max_wait < 0
    /\ Mon(p).mutex = 0
    /\ monitors' = [monitors EXCEPT ![pub[p].monitor].mutex = p]
    /\ pub' = [pub EXCEPT ![p].pc = "write_region", ![p].owns = TRUE]
    /\ UNCHANGED <<fileLock, monName, shmKey, segs, cli, hist>>
    /\ UNCHANGED <<dvars, lvars>>

\* max_wait >= 0: lock.timed_lock(now + max_wait) succeeds.
TimedLock(p) ==
    /\ pub[p].pc = "lock"
    /\ pub[p].max_wait >= 0
    /\ Mon(p).mutex = 0
    /\ monitors' = [monitors EXCEPT ![pub[p].monitor].mutex = p]
    /\ pub' = [pub EXCEPT ![p].pc = "write_region", ![p].owns = TRUE]
    /\ UNCHANGED <<fileLock, monName, shmKey, segs, cli, hist>>
    /\ UNCHANGED <<dvars, lvars>>

\* Mutant: after the monitor is re-created the publish restarts from its
\* initial data, {REGION_1, 1}.
TimedLockExpired_Restart(p) ==
    /\ pub[p].pc = "lock"
    /\ pub[p].max_wait >= 0
    /\ Mon(p).mutex # 0
    /\ monitors' = Append(monitors, NewMonitor(REGION_NONE, U32(0)))
    /\ monName' = Len(monitors) + 1
    /\ pub' = [pub EXCEPT ![p].pc = "write_region",
                          ![p].monitor = Len(monitors) + 1,
                          ![p].in_use_region = REGION_NONE,
                          ![p].next_region = REGION_1,
                          ![p].next_timestamp = U32(1),
                          ![p].timed_out = TRUE]
    /\ hist' = [hist EXCEPT !.clean = FALSE]
    /\ UNCHANGED <<fileLock, shmKey, segs, cli>>
    /\ UNCHANGED <<dvars, lvars>>

\* A variant of the reset that keeps in_use_region.
TimedLockExpired_KeepsInUse(p) ==
    /\ pub[p].pc = "lock"
    /\ pub[p].max_wait >= 0
    /\ Mon(p).mutex # 0
    /\ monitors' = Append(monitors, NewMonitor(REGION_NONE, U32(0)))
    /\ monName' = Len(monitors) + 1
    /\ pub' = [pub EXCEPT ![p].pc = "write_region",
                          ![p].monitor = Len(monitors) + 1,
                          ![p].timed_out = TRUE]
    /\ hist' = [hist EXCEPT !.clean = FALSE]
    /\ UNCHANGED <<fileLock, shmKey, segs, cli>>
    /\ UNCHANGED <<dvars, lvars>>

\* A variant whose timed acquisition expires whatever max_wait is.
TimedLockExpired_AnyWait(p) ==
    /\ pub[p].pc = "lock"
    /\ Mon(p).mutex # 0
    /\ monitors' = Append(monitors, NewMonitor(REGION_NONE, U32(0)))
    /\ monName' = Len(monitors) + 1
    /\ pub' = [pub EXCEPT ![p].pc = "write_region",
                          ![p].monitor = Len(monitors) + 1,
                          ![p].in_use_region = REGION_NONE,
                          ![p].timed_out = TRUE]
    /\ hist' = [hist EXCEPT !.clean = FALSE]
    /\ UNCHANGED <<fileLock, shmKey, segs, cli>>
    /\ UNCHANGED <<dvars, lvars>>

\* max_wait >= 0 and the mutex is still held at the deadline:
\* Monitor::remove(); in_use_region = REGION_NONE;
\* monitor = Monitor(SharedDataTimestamp{REGION_NONE, 0});
\* The scoped lock does not own any mutex afterwards.
TimedLockExpired(p) ==
    /\ pub[p].pc = "lock"
    /\ pub[p].max_wait >= 0
    /\ Mon(p).mutex # 0
    /\ monitors' = Append(monitors, NewMonitor(REGION_NONE, U32(0)))
    /\ monName' = Len(monitors) + 1
    /\ pub' = [pub EXCEPT ![p].pc = "write_region",
                          ![p].monitor = Len(monitors) + 1,
                          ![p].in_use_region = REGION_NONE,
                          ![p].timed_out = TRUE]
    /\ hist' = [hist EXCEPT !.clean = FALSE]
    /\ UNCHANGED <<fileLock, shmKey, segs, cli>>
    /\ UNCHANGED <<dvars, lvars>>

\* monitor.data().region = next_region;
WriteRegion(p) ==
    /\ pub[p].pc = "write_region"
    /\ monitors' = [monitors EXCEPT ![pub[p].monitor].region = pub[p].next_region]
    /\ pub' = Set(p, "pc", "write_timestamp")
    /\ UNCHANGED <<fileLock, monName, shmKey, segs, cli, hist>>
    /\ UNCHANGED <<dvars, lvars>>

\* monitor.data().timestamp = next_timestamp;
WriteTimestamp(p) ==
    /\ pub[p].pc = "write_timestamp"
    /\ monitors' = [monitors EXCEPT
                       ![pub[p].monitor].timestamp = pub[p].next_timestamp]
    /\ pub' = Set(p, "pc", "unlock")
    /\ UNCHANGED <<fileLock, monName, shmKey, segs, cli, hist>>
    /\ UNCHANGED <<dvars, lvars>>

\* End of the lock scope: the scoped lock unlocks the mutex if it owns it.
Unlock(p) ==
    /\ pub[p].pc = "unlock"
    /\ monitors' = IF pub[p].owns
                   THEN [monitors EXCEPT ![pub[p].monitor].mutex = 0]
                   ELSE monitors
    /\ pub' = [pub EXCEPT ![p].pc = "notify", ![p].owns = FALSE]
    /\ UNCHANGED <<fileLock, monName, shmKey, segs, cli, hist>>
    /\ UNCHANGED <<dvars, lvars>>

\* monitor.notify_all();
\* The clients blocked on the condition variable of monitor m.
Waiters(m) == {c \in Clients : cli[c].pc = "waiting" /\ cli[c].monitor = m}

\* A variant of notify_all that wakes nobody.
NotifyAll_WakesNobody(p) ==
    /\ pub[p].pc = "notify"
    /\ pub' = [pub EXCEPT ![p].pc = "mark_old", ![p].notified = TRUE]
    /\ UNCHANGED <<fileLock, monitors, monName, shmKey, segs, cli, hist>>
    /\ UNCHANGED <<dvars, lvars>>

NotifyAll(p) ==
    /\ pub[p].pc = "notify"
    /\ pub' = [pub EXCEPT ![p].pc = "mark_old", ![p].notified = TRUE]
    /\ cli' = [c \in Clients |->
                  IF c \in Waiters(pub[p].monitor)
                  THEN [cli[c] EXCEPT !.pc = "woken"] ELSE cli[c]]
    /\ UNCHANGED <<fileLock, monitors, monName, shmKey, segs, hist>>
    /\ UNCHANGED <<dvars, lvars>>

\* Mutant: the old region is marked for removal but the publisher does not
\* wait for its clients to detach.
MarkOld_NoWait(p) ==
    /\ pub[p].pc = "mark_old"
    /\ LET old == pub[p].in_use_region
       IN IF old # REGION_NONE /\ RegionExists(old)
          THEN /\ segs' = MarkedForRemoval(Attached(segs, shmKey[old], p),
                                           shmKey[old])
               /\ shmKey' = [shmKey EXCEPT ![old] = 0]
               /\ pub' = [pub EXCEPT ![p].pc = "return",
                                     ![p].in_use_shared_memory = shmKey[old]]
          ELSE /\ pub' = [pub EXCEPT ![p].pc = "return"]
               /\ UNCHANGED <<segs, shmKey>>
    /\ UNCHANGED <<fileLock, monitors, monName, cli, hist>>
    /\ UNCHANGED <<dvars, lvars>>

\* A variant that gives up the file lock before waiting for the clients.
MarkOld_ReleasesFileLock(p) ==
    /\ pub[p].pc = "mark_old"
    /\ LET old == pub[p].in_use_region
       IN IF old # REGION_NONE /\ RegionExists(old)
          THEN /\ segs' = MarkedForRemoval(Attached(segs, shmKey[old], p),
                                           shmKey[old])
               /\ shmKey' = [shmKey EXCEPT ![old] = 0]
               /\ pub' = [pub EXCEPT ![p].pc = "wait_detach",
                                     ![p].in_use_shared_memory = shmKey[old]]
               /\ fileLock' = 0
          ELSE /\ pub' = Set(p, "pc", "return")
               /\ UNCHANGED <<segs, shmKey, fileLock>>
    /\ UNCHANGED <<monitors, monName, cli, hist>>
    /\ UNCHANGED <<dvars, lvars>>

\* if (in_use_region != REGION_NONE && RegionExists(in_use_region))
\*     { in_use_shared_memory = makeSharedMemory(in_use_region);
\*       Remove(in_use_region); ... }
MarkOld(p) ==
    /\ pub[p].pc = "mark_old"
    /\ LET old == pub[p].in_use_region
       IN IF old # REGION_NONE /\ RegionExists(old)
          THEN /\ segs' = MarkedForRemoval(Attached(segs, shmKey[old], p),
                                           shmKey[old])
               /\ shmKey' = [shmKey EXCEPT ![old] = 0]
               /\ pub' = [pub EXCEPT ![p].pc = "wait_detach",
                                     ![p].in_use_shared_memory = shmKey[old]]
          ELSE /\ pub' = Set(p, "pc", "return")
               /\ UNCHANGED <<segs, shmKey>>
    /\ UNCHANGED <<fileLock, monitors, monName, cli, hist>>
    /\ UNCHANGED <<dvars, lvars>>

\* WaitForDetach polls shm_nattch until only the publisher's handle is left.
DetachSeen(p) == NumAttached(pub[p].in_use_shared_memory) <= 1

\* in_use_shared_memory->WaitForDetach();
WaitForDetach(p) ==
    /\ pub[p].pc = "wait_detach"
    /\ DetachSeen(p)
    /\ pub' = Set(p, "pc", "return")
    /\ UNCHANGED <<fileLock, monitors, monName, shmKey, segs, cli, hist>>
    /\ UNCHANGED <<dvars, lvars>>

\* return EXIT_SUCCESS; the handles and the file lock are released.
Return(p) ==
    /\ pub[p].pc = "return"
    /\ Unwound(p)
    /\ segs' = Detached(segs, p)
    /\ hist' = [hist EXCEPT !.published = @ + 1]
    /\ UNCHANGED <<monitors, monName, shmKey, cli>>
    /\ UNCHANGED <<dvars, lvars>>

\* The publisher process dies inside Storage::Run: the kernel drops its
\* file lock and its attachments; a monitor mutex it holds stays locked.
Crash(p) ==
    /\ pub[p].pc \notin {"idle", "file_lock"}
    /\ Unwound(p)
    /\ segs' = Detached(segs, p)
    /\ hist' = [hist EXCEPT !.clean = FALSE]
    /\ UNCHANGED <<monitors, monName, shmKey, cli>>
    /\ UNCHANGED <<dvars, lvars>>

\* ------------------------------------------------------------------ client
\* The client opens the named monitor (it is never re-opened afterwards).
ClientOpenMonitor(c) ==
    /\ cli[c].pc = "idle"
    /\ cli[c].monitor = 0
    /\ monName # 0
    /\ cli' = [cli EXCEPT ![c].monitor = monName]
    /\ UNCHANGED <<fileLock, monitors, monName, shmKey, segs, pub, hist>>
    /\ UNCHANGED <<dvars, lvars>>

\* The client takes the monitor mutex and reads data() under it.
ClientLockRead(c) ==
    /\ cli[c].pc = "idle"
    /\ cli[c].monitor # 0
    /\ monitors[cli[c].monitor].mutex = 0
    /\ monitors' = [monitors EXCEPT ![cli[c].monitor].mutex = c]
    /\ cli' = [cli EXCEPT ![c].pc = "locked",
                          ![c].region = monitors[cli[c].monitor].region,
                          ![c].timestamp = monitors[cli[c].monitor].timestamp,
                          ![c].readSeg =
                              IF monitors[cli[c].monitor].region = REGION_NONE
                              THEN 0
                              ELSE shmKey[monitors[cli[c].monitor].region],
                          ![c].readCurrent = (cli[c].monitor = monName)]
    /\ UNCHANGED <<fileLock, monName, shmKey, segs, pub, hist>>
    /\ UNCHANGED <<dvars, lvars>>

\* The client releases the mutex, remembering the region id.
ClientUnlock(c) ==
    /\ cli[c].pc = "locked"
    /\ monitors' = [monitors EXCEPT ![cli[c].monitor].mutex = 0]
    /\ cli' = [cli EXCEPT ![c].pc = IF cli[c].region = REGION_NONE
                                    THEN "idle" ELSE "remembered"]
    /\ UNCHANGED <<fileLock, monName, shmKey, segs, pub, hist>>
    /\ UNCHANGED <<dvars, lvars>>

\* The client maps the remembered region: open(name) attaches to the
\* segment the id resolves to, or fails with RegionAbsent.
ClientMap(c) ==
    /\ cli[c].pc = "remembered"
    /\ IF RegionExists(cli[c].region)
       THEN /\ segs' = Attached(segs, shmKey[cli[c].region], c)
            /\ cli' = [cli EXCEPT ![c].pc = "mapped",
                                  ![c].seg = shmKey[cli[c].region]]
       ELSE /\ cli' = [cli EXCEPT ![c].pc = "absent"]
            /\ UNCHANGED segs
    /\ UNCHANGED <<fileLock, monitors, monName, shmKey, pub, hist>>
    /\ UNCHANGED <<dvars, lvars>>

\* The client gives up the region (unmaps it, or drops the failed open) and
\* goes back to reading the monitor.
ClientDetach(c) ==
    /\ cli[c].pc \in {"mapped", "absent"}
    /\ segs' = Detached(segs, c)
    /\ cli' = [cli EXCEPT ![c] = [IdleClient EXCEPT !.monitor = cli[c].monitor]]
    /\ UNCHANGED <<fileLock, monitors, monName, shmKey, pub, hist>>
    /\ UNCHANGED <<dvars, lvars>>

\* The client, holding the mutex and having read the pair, waits on the
\* condition variable for the timestamp to change: wait(lock) releases the
\* mutex and blocks in one step.
ClientWait(c) ==
    /\ cli[c].pc = "locked"
    /\ monitors' = [monitors EXCEPT ![cli[c].monitor].mutex = 0]
    /\ cli' = [cli EXCEPT ![c].pc = "waiting", ![c].waited = TRUE]
    /\ UNCHANGED <<fileLock, monName, shmKey, segs, pub, hist>>
    /\ UNCHANGED <<dvars, lvars>>

\* A notified client returns from wait(lock): it takes the mutex again and
\* reads the pair under it.
ClientWake(c) ==
    /\ cli[c].pc = "woken"
    /\ monitors[cli[c].monitor].mutex = 0
    /\ monitors' = [monitors EXCEPT ![cli[c].monitor].mutex = c]
    /\ cli' = [cli EXCEPT ![c].pc = "locked",
                          ![c].region = monitors[cli[c].monitor].region,
                          ![c].timestamp = monitors[cli[c].monitor].timestamp,
                          ![c].readSeg =
                              IF monitors[cli[c].monitor].region = REGION_NONE
                              THEN 0
                              ELSE shmKey[monitors[cli[c].monitor].region],
                          ![c].readCurrent = (cli[c].monitor = monName)]
    /\ UNCHANGED <<fileLock, monName, shmKey, segs, pub, hist>>
    /\ UNCHANGED <<dvars, lvars>>

Next ==
    \/ \E p \in Publishers :
          \/ RunStart(p) \/ AcquireFileLock(p) \/ ReadMonitor(p)
          \/ RemoveStale(p) \/ PopulateLayout(p) \/ PopulateLayoutThrows(p)
          \/ Allocate(p) \/ AllocateThrows(p) \/ CopyLayout(p)
          \/ PopulateData(p) \/ PopulateDataThrows(p)
          \/ LockMonitor(p) \/ TimedLock(p) \/ TimedLockExpired(p)
          \/ WriteRegion(p) \/ WriteTimestamp(p) \/ Unlock(p) \/ NotifyAll(p)
          \/ MarkOld(p) \/ WaitForDetach(p) \/ Return(p) \/ Crash(p)
    \/ \E c \in Clients :
          \/ ClientOpenMonitor(c) \/ ClientLockRead(c) \/ ClientUnlock(c)
          \/ ClientMap(c) \/ ClientDetach(c)

Spec == Init /\ [][Next]_vars

\* ------------------------------------------------- regions left behind
\* What a publish leaves that came to REGION_2 after one to REGION_1, found
\* the monitor mutex held, reset the monitor (storage.cpp:159-167) and died
\* before its update: a fresh monitor naming no region, and both regions,
\* populated and not marked for removal.
InitStale ==
    /\ DataIdle
    /\ LayoutIdle
    /\ fileLock = 0
    /\ pub = [p \in Publishers |-> IdlePublisher]
    /\ cli = [c \in Clients |-> IdleClient]
    /\ monitors = <<NewMonitor(REGION_NONE, U32(0))>>
    /\ monName = 1
    /\ shmKey = [r \in Regions |-> r]
    /\ segs = <<PublishedSegment(REGION_1), PublishedSegment(REGION_2)>>
    /\ hist = [cold |-> FALSE, clean |-> FALSE, runs |-> 0, published |-> 0]

\* The publishes that follow, with every way they can end.
SpecStale == InitStale /\ [][Next]_vars

\* ------------------------------------------- clients that wait for a publish
\* Every step of Storage::Run once it is invoked; the process is not killed.
PublisherStep(p) ==
    \/ AcquireFileLock(p) \/ ReadMonitor(p)
    \/ RemoveStale(p) \/ PopulateLayout(p) \/ PopulateLayoutThrows(p)
    \/ Allocate(p) \/ AllocateThrows(p) \/ CopyLayout(p)
    \/ PopulateData(p) \/ PopulateDataThrows(p)
    \/ LockMonitor(p) \/ TimedLock(p) \/ TimedLockExpired(p)
    \/ WriteRegion(p) \/ WriteTimestamp(p) \/ Unlock(p) \/ NotifyAll(p)
    \/ MarkOld(p) \/ WaitForDetach(p) \/ Return(p)

\* The steps a client owes the others: waking when notified, releasing the
\* mutex, and letting go of a region.
ClientProgress(c) ==
    \/ ClientWake(c) \/ ClientUnlock(c) \/ ClientMap(c) \/ ClientDetach(c)

NextWait ==
    \/ \E p \in Publishers : RunStart(p) \/ PublisherStep(p)
    \/ \E c \in Clients :
          \/ ClientOpenMonitor(c) \/ ClientLockRead(c) \/ ClientWait(c)
          \/ ClientProgress(c)

\* A process that can take a step is scheduled sooner or later.
FairnessWait ==
    /\ \A p \in Publishers : WF_vars(PublisherStep(p))
    /\ \A c \in Clients : WF_vars(ClientProgress(c))

SpecWait == Init /\ [][NextWait]_vars /\ FairnessWait

\* ============================================ PopulateLayout, PopulateData
\* The sizer and the populator of one publish, section by section in source
\* order, on the input files chosen at the start.
InitData ==
    /\ LayoutIdle
    /\ fileLock = 0
    /\ pub = [p \in Publishers |-> IdlePublisher]
    /\ cli = [c \in Clients |-> IdleClient]
    /\ InitCold
    /\ config \in Configs
    /\ layout = NewDataLayout
    /\ memory = NoMemory
    /\ turns_connectivity_checksum = 0
    /\ dpc = "size_head"

\* PopulateLayout, storage.cpp:214-266: the index path, names, turn lane
\* descriptions, original edges and edge-based nodes.
SizeHead ==
    /\ dpc = "size_head"
    /\ layout' = SetBlocksFromFiles(layout,
          << "FILE_INDEX_PATH", "NAME_CHAR_DATA", "LANE_DESCRIPTION_OFFSETS",
             "LANE_DESCRIPTION_MASKS", "PRE_TURN_BEARING", "POST_TURN_BEARING",
             "TURN_INSTRUCTION", "LANE_DATA_ID", "ENTRY_CLASSID",
             "EDGE_BASED_NODE_DATA_LIST", "ANNOTATION_DATA_LIST" >>)
    /\ dpc' = "size_hsgr"
    /\ UNCHANGED <<config, memory, turns_connectivity_checksum>>
    /\ UNCHANGED <<pvars, lvars>>

\* Mutant: a file declaring exactly NUM_METRICS metrics is rejected.
TooManyMetrics_Inclusive(num_metrics) == num_metrics >= NUM_METRICS

\* if (num_metrics > NUM_METRICS) throw ...
TooManyMetrics(num_metrics) == num_metrics > NUM_METRICS

\* PopulateLayout, storage.cpp:268-312: the contraction hierarchy graph.
SizeHSGR ==
    /\ dpc = "size_hsgr"
    /\ LET f == config.hsgr
       IN IF f.exists
          THEN /\ ~TooManyMetrics(f.num_metrics)
               /\ layout' =
                     SetEdgeFilters(
                         SetEdgeFilters(
                             SetBlock(SetBlock(SetBlock(layout,
                                 "HSGR_CHECKSUM", "entry", 1),
                                 "CH_GRAPH_NODE_LIST", "entry", f.num_nodes),
                                 "CH_GRAPH_EDGE_LIST", "entry", f.num_edges),
                             0, f.num_metrics, f.num_edges),
                         f.num_metrics, NUM_METRICS, 0)
          ELSE layout' =
                   SetEdgeFilters(
                       SetBlocksEmpty(layout,
                           << "HSGR_CHECKSUM", "CH_GRAPH_NODE_LIST",
                              "CH_GRAPH_EDGE_LIST" >>),
                       0, NUM_METRICS, 0)
    /\ dpc' = "size_tail"
    /\ UNCHANGED <<config, memory, turns_connectivity_checksum>>
    /\ UNCHANGED <<pvars, lvars>>

\* storage.cpp:277-281: too many metrics in .osrm.hsgr.
SizeHSGRThrows ==
    /\ dpc = "size_hsgr"
    /\ config.hsgr.exists
    /\ TooManyMetrics(config.hsgr.num_metrics)
    /\ dpc' = "throw_size_hsgr"
    /\ UNCHANGED <<config, layout, memory, turns_connectivity_checksum>>
    /\ UNCHANGED <<pvars, lvars>>

\* PopulateLayout, storage.cpp:314-470: the mandatory files after the graph.
\* BOOST_ASSERT(number_of_rev_weight_blocks == number_of_segment_weight_blocks)
\* (storage.cpp:393) fails: a build with assertions aborts the process.
SizeTailAsserts ==
    /\ dpc = "size_tail"
    /\ config.geometry.number_of_rev_weight_blocks
           # config.geometry.number_of_segment_weight_blocks
    /\ dpc' = "abort_size_tail"
    /\ UNCHANGED <<config, layout, memory, turns_connectivity_checksum>>
    /\ UNCHANGED <<pvars, lvars>>

\* In a build without assertions BOOST_ASSERT expands to nothing and the
\* count of the reverse weight vector is read and dropped (storage.cpp:394);
\* both weight blocks get the count of the forward vector (400-405).
SizeTail ==
    /\ dpc = "size_tail"
    /\ layout' = SetBlock(SetBlock(SetBlocksFromFiles(layout,
          << "R_SEARCH_TREE", "R_SEARCH_TREE_LEVELS", "PROPERTIES", "TIMESTAMP",
             "TURN_WEIGHT_PENALTIES", "TURN_DURATION_PENALTIES",
             "COORDINATE_LIST", "OSM_NODE_ID_LIST", "GEOMETRIES_INDEX",
             "GEOMETRIES_NODE_LIST", "GEOMETRIES_FWD_DURATION_LIST",
             "GEOMETRIES_REV_DURATION_LIST", "GEOMETRIES_FWD_DATASOURCES_LIST",
             "GEOMETRIES_REV_DATASOURCES_LIST", "DATASOURCES_NAMES",
             "BEARING_VALUES", "BEARING_CLASSID", "BEARING_OFFSETS",
             "BEARING_BLOCKS", "ENTRY_CLASS", "TURN_LANE_DATA",
             "MANEUVER_OVERRIDES", "MANEUVER_OVERRIDE_NODE_SEQUENCES" >>),
          "GEOMETRIES_FWD_WEIGHT_LIST", "entry",
          config.geometry.number_of_segment_weight_blocks),
          "GEOMETRIES_REV_WEIGHT_LIST", "entry",
          config.geometry.number_of_segment_weight_blocks)
    /\ dpc' = "size_partition"
    /\ UNCHANGED <<config, memory, turns_connectivity_checksum>>
    /\ UNCHANGED <<pvars, lvars>>

\* PopulateLayout, storage.cpp:474-495: .osrm.partition.
SizePartition ==
    /\ dpc = "size_partition"
    /\ LET bids == << "MLD_LEVEL_DATA", "MLD_PARTITION", "MLD_CELL_TO_CHILDREN" >>
       IN layout' = IF config.partition
                    THEN SetBlocksFromFiles(layout, bids)
                    ELSE SetBlocksEmpty(layout, bids)
    /\ dpc' = "size_cells"
    /\ UNCHANGED <<config, memory, turns_connectivity_checksum>>
    /\ UNCHANGED <<pvars, lvars>>

\* PopulateLayout, storage.cpp:497-520: .osrm.cells.
SizeCells ==
    /\ dpc = "size_cells"
    /\ LET bids == << "MLD_CELL_SOURCE_BOUNDARY", "MLD_CELL_DESTINATION_BOUNDARY",
                      "MLD_CELLS", "MLD_CELL_LEVEL_OFFSETS" >>
       IN layout' = IF config.cells
                    THEN SetBlocksFromFiles(layout, bids)
                    ELSE SetBlocksEmptyChar(layout, bids)
    /\ dpc' = "size_cell_metrics"
    /\ UNCHANGED <<config, memory, turns_connectivity_checksum>>
    /\ UNCHANGED <<pvars, lvars>>

\* PopulateLayout, storage.cpp:522-573: .osrm.cell_metrics.
SizeCellMetrics ==
    /\ dpc = "size_cell_metrics"
    /\ LET f == config.cell_metrics
       IN IF f.exists
          THEN /\ ~TooManyMetrics(f.num_metric)
               /\ layout' = SetCellMetricsEmpty(
                                SetCellMetrics(layout, 0, f.num_metric),
                                f.num_metric, NUM_METRICS)
          ELSE layout' = SetBlocksEmptyChar(layout,
                   << "MLD_CELL_WEIGHTS_0", "MLD_CELL_WEIGHTS_1",
                      "MLD_CELL_WEIGHTS_2", "MLD_CELL_WEIGHTS_3",
                      "MLD_CELL_WEIGHTS_4", "MLD_CELL_WEIGHTS_5",
                      "MLD_CELL_WEIGHTS_6", "MLD_CELL_WEIGHTS_7",
                      "MLD_CELL_DURATIONS_0", "MLD_CELL_DURATIONS_1",
                      "MLD_CELL_DURATIONS_2", "MLD_CELL_DURATIONS_3",
                      "MLD_CELL_DURATIONS_4", "MLD_CELL_DURATIONS_5",
                      "MLD_CELL_DURATIONS_6", "MLD_CELL_DURATIONS_7" >>)
    /\ dpc' = "size_mldgr"
    /\ UNCHANGED <<config, memory, turns_connectivity_checksum>>
    /\ UNCHANGED <<pvars, lvars>>

\* storage.cpp:528-532: too many metrics in .osrm.cell_metrics.
SizeCellMetricsThrows ==
    /\ dpc = "size_cell_metrics"
    /\ config.cell_metrics.exists
    /\ TooManyMetrics(config.cell_metrics.num_metric)
    /\ dpc' = "throw_size_cell_metrics"
    /\ UNCHANGED <<config, layout, memory, turns_connectivity_checksum>>
    /\ UNCHANGED <<pvars, lvars>>

\* PopulateLayout, storage.cpp:575-604: .osrm.mldgr.
SizeMLDGraph ==
    /\ dpc = "size_mldgr"
    /\ LET bids == << "MLD_GRAPH_NODE_LIST", "MLD_GRAPH_EDGE_LIST",
                      "MLD_GRAPH_NODE_TO_OFFSET" >>
       IN layout' = IF config.mldgr.exists
                    THEN SetBlocksFromFiles(layout, bids)
                    ELSE SetBlocksEmpty(layout, bids)
    /\ dpc' = "allocate"
    /\ UNCHANGED <<config, memory, turns_connectivity_checksum>>
    /\ UNCHANGED <<pvars, lvars>>

\* sizeof(Block): four 64 bit fields.
SizeOfBlock == 32

\* sizeof(layout): the blocks array is the only member of DataLayout.
SizeOfDataLayout == NUM_BLOCKS * SizeOfBlock

\* The blocks array of a layout, in the order of the enum.
BlocksOf(L) == [i \in 1 .. NUM_BLOCKS |-> L[BlockID[i]]]

\* The bytes of a layout as memcpy sees them: the four fields of every block.
Bytewise(L) ==
    [b \in BlockIDs |-> [num_entries |-> L[b].num_entries,
                         byte_size |-> L[b].byte_size,
                         entry_size |-> L[b].entry_size,
                         entry_align |-> L[b].entry_align]]

\* A variant that creates the region without copying the layout into it.
MakeSharedMemory_NoCopy ==
    /\ dpc = "allocate"
    /\ memory' = [FreshMemory EXCEPT
                      !.size = SizeOfDataLayout + GetSizeOfLayout(BlocksOf(layout)),
                      !.descriptor = Bytewise(NewDataLayout)]
    /\ dpc' = "load_head"
    /\ UNCHANGED <<config, layout, turns_connectivity_checksum>>
    /\ UNCHANGED <<pvars, lvars>>

\* Storage::Run, storage.cpp:141-147: the region is created once the layout
\* is sized, with sizeof(layout) + layout.GetSizeOfLayout() bytes, and the
\* layout is copied to its start.
MakeSharedMemory ==
    /\ dpc = "allocate"
    /\ memory' = [FreshMemory EXCEPT
                      !.size = SizeOfDataLayout + GetSizeOfLayout(BlocksOf(layout)),
                      !.descriptor = Bytewise(layout)]
    /\ dpc' = "load_head"
    /\ UNCHANGED <<config, layout, turns_connectivity_checksum>>
    /\ UNCHANGED <<pvars, lvars>>

\* PopulateData, storage.cpp:617-733: up to readTurnData, which reads the
\* connectivity checksum of .osrm.edges.
LoadHead ==
    /\ dpc = "load_head"
    /\ memory' = WriteCanaries(memory,
          << "FILE_INDEX_PATH", "NAME_CHAR_DATA", "TURN_LANE_DATA",
             "LANE_DESCRIPTION_OFFSETS", "LANE_DESCRIPTION_MASKS",
             "EDGE_BASED_NODE_DATA_LIST", "ANNOTATION_DATA_LIST",
             "LANE_DATA_ID", "TURN_INSTRUCTION", "ENTRY_CLASSID",
             "PRE_TURN_BEARING", "POST_TURN_BEARING" >>)
    /\ turns_connectivity_checksum' = config.edges.connectivity_checksum
    /\ dpc' = "load_common"
    /\ UNCHANGED <<config, layout>>
    /\ UNCHANGED <<pvars, lvars>>

\* PopulateData, storage.cpp:735-927: geometry to intersection data.
LoadCommon ==
    /\ dpc = "load_common"
    /\ memory' = WriteCanaries(memory,
          << "GEOMETRIES_INDEX", "GEOMETRIES_NODE_LIST",
             "GEOMETRIES_FWD_WEIGHT_LIST", "GEOMETRIES_REV_WEIGHT_LIST",
             "GEOMETRIES_FWD_DURATION_LIST", "GEOMETRIES_REV_DURATION_LIST",
             "GEOMETRIES_FWD_DATASOURCES_LIST",
             "GEOMETRIES_REV_DATASOURCES_LIST", "DATASOURCES_NAMES",
             "COORDINATE_LIST", "OSM_NODE_ID_LIST", "TURN_WEIGHT_PENALTIES",
             "TURN_DURATION_PENALTIES", "TIMESTAMP", "R_SEARCH_TREE",
             "R_SEARCH_TREE_LEVELS", "PROPERTIES", "BEARING_CLASSID",
             "BEARING_VALUES", "BEARING_OFFSETS", "BEARING_BLOCKS",
             "ENTRY_CLASS" >>)
    /\ dpc' = "load_hsgr"
    /\ UNCHANGED <<config, layout, turns_connectivity_checksum>>
    /\ UNCHANGED <<pvars, lvars>>

\* The canaries written by the HSGR section, storage.cpp:930-979.
HSGRCanaries(M) ==
    IF config.hsgr.exists
    THEN WriteEdgeFilterCanaries(
             WriteCanaries(M, << "CH_GRAPH_NODE_LIST", "CH_GRAPH_EDGE_LIST",
                                 "HSGR_CHECKSUM" >>),
             0, NUM_METRICS)
    ELSE WriteCanaries(M, << "HSGR_CHECKSUM", "CH_GRAPH_NODE_LIST",
                             "CH_GRAPH_EDGE_LIST" >>)

\* if (turns_connectivity_checksum != graph_connectivity_checksum) throw ...
ChecksumMismatch(f) ==
    f.exists /\ turns_connectivity_checksum # f.connectivity_checksum

\* PopulateData, storage.cpp:929-980: the graph is read and its checksum
\* equals the one of the turns.
LoadHSGR ==
    /\ dpc = "load_hsgr"
    /\ ~ChecksumMismatch(config.hsgr)
    /\ memory' = HSGRCanaries(memory)
    /\ dpc' = "load_partition"
    /\ UNCHANGED <<config, layout, turns_connectivity_checksum>>
    /\ UNCHANGED <<pvars, lvars>>

\* storage.cpp:963-970: the checksum of .osrm.hsgr differs.
LoadHSGRThrows ==
    /\ dpc = "load_hsgr"
    /\ ChecksumMismatch(config.hsgr)
    /\ memory' = HSGRCanaries(memory)
    /\ dpc' = "throw_load_hsgr"
    /\ UNCHANGED <<config, layout, turns_connectivity_checksum>>
    /\ UNCHANGED <<pvars, lvars>>

\* PopulateData, storage.cpp:983-1008: .osrm.partition, when it exists.
LoadPartition ==
    /\ dpc = "load_partition"
    /\ memory' = IF config.partition
                 THEN WriteCanaries(memory, << "MLD_LEVEL_DATA", "MLD_PARTITION",
                                               "MLD_CELL_TO_CHILDREN" >>)
                 ELSE memory
    /\ dpc' = "load_cells"
    /\ UNCHANGED <<config, layout, turns_connectivity_checksum>>
    /\ UNCHANGED <<pvars, lvars>>

\* PopulateData, storage.cpp:1010-1046: .osrm.cells, when it exists.
LoadCells ==
    /\ dpc = "load_cells"
    /\ memory' = IF config.cells
                 THEN WriteCanaries(memory,
                          << "MLD_CELL_SOURCE_BOUNDARY",
                             "MLD_CELL_DESTINATION_BOUNDARY", "MLD_CELLS",
                             "MLD_CELL_LEVEL_OFFSETS" >>)
                 ELSE memory
    /\ dpc' = "load_cell_metrics"
    /\ UNCHANGED <<config, layout, turns_connectivity_checksum>>
    /\ UNCHANGED <<pvars, lvars>>

\* PopulateData, storage.cpp:1048-1077: .osrm.cell_metrics, when it exists.
LoadCellMetrics ==
    /\ dpc = "load_cell_metrics"
    /\ memory' = IF config.cell_metrics.exists
                 THEN WriteCellMetricCanaries(memory, 0, NUM_METRICS)
                 ELSE memory
    /\ dpc' = "load_mldgr"
    /\ UNCHANGED <<config, layout, turns_connectivity_checksum>>
    /\ UNCHANGED <<pvars, lvars>>

\* The canaries written by the MLD graph section, storage.cpp:1079-1090.
MLDGraphCanaries(M) ==
    IF config.mldgr.exists
    THEN WriteCanaries(M, << "MLD_GRAPH_NODE_LIST", "MLD_GRAPH_EDGE_LIST",
                             "MLD_GRAPH_NODE_TO_OFFSET" >>)
    ELSE M

\* Mutant: the checksum of .osrm.mldgr is not compared.
LoadMLDGraph_Unchecked ==
    /\ dpc = "load_mldgr"
    /\ memory' = MLDGraphCanaries(memory)
    /\ dpc' = "load_overrides"
    /\ UNCHANGED <<config, layout, turns_connectivity_checksum>>
    /\ UNCHANGED <<pvars, lvars>>

\* PopulateData, storage.cpp:1079-1114: the graph is read and its checksum
\* equals the one of the turns.
LoadMLDGraph ==
    /\ dpc = "load_mldgr"
    /\ ~ChecksumMismatch(config.mldgr)
    /\ memory' = MLDGraphCanaries(memory)
    /\ dpc' = "load_overrides"
    /\ UNCHANGED <<config, layout, turns_connectivity_checksum>>
    /\ UNCHANGED <<pvars, lvars>>

\* storage.cpp:1106-1113: the checksum of .osrm.mldgr differs.
LoadMLDGraphThrows ==
    /\ dpc = "load_mldgr"
    /\ ChecksumMismatch(config.mldgr)
    /\ memory' = MLDGraphCanaries(memory)
    /\ dpc' = "throw_load_mldgr"
    /\ UNCHANGED <<config, layout, turns_connectivity_checksum>>
    /\ UNCHANGED <<pvars, lvars>>

\* PopulateData, storage.cpp:1116-1135: maneuver overrides, then return.
LoadManeuverOverrides ==
    /\ dpc = "load_overrides"
    /\ memory' = WriteCanaries(memory, << "MANEUVER_OVERRIDES",
                                          "MANEUVER_OVERRIDE_NODE_SEQUENCES" >>)
    /\ dpc' = "returned"
    /\ UNCHANGED <<config, layout, turns_connectivity_checksum>>
    /\ UNCHANGED <<pvars, lvars>>

NextData ==
    \/ SizeHead
    \/ SizeHSGR
    \/ SizeHSGRThrows
    \/ SizeTail
    \/ SizeTailAsserts
    \/ SizePartition
    \/ SizeCells
    \/ SizeCellMetrics
    \/ SizeCellMetricsThrows
    \/ SizeMLDGraph
    \/ MakeSharedMemory
    \/ LoadHead
    \/ LoadCommon
    \/ LoadHSGR
    \/ LoadHSGRThrows
    \/ LoadPartition
    \/ LoadCells
    \/ LoadCellMetrics
    \/ LoadMLDGraph
    \/ LoadMLDGraphThrows
    \/ LoadManeuverOverrides

SpecData == InitData /\ [][NextData]_vars

\* ------------------------------------------- GetBlockPtr on short layouts
InitLayout ==
    /\ DataIdle
    /\ fileLock = 0
    /\ pub = [p \in Publishers |-> IdlePublisher]
    /\ cli = [c \in Clients |-> IdleClient]
    /\ InitCold
    /\ blocks \in Layouts
    /\ base \in 0 .. MaxBase
    /\ bytes = [a \in AddressSpace(blocks, base) |-> 0]
    /\ result = NoResult
    /\ written = [bid \in LayoutBlockIDs |-> "no"]
    /\ lpc = "write"

\* The byte a payload write puts into every byte of block bid it fills.
Fill(bid) == bid + 1

\* The memory after byte_size bytes were written at the pointer the write
\* mode returned for block bid: the most PopulateData writes there; a shorter
\* write touches a part of these addresses.
FillPayload(B, M, ptr, bid) ==
    LET p == GetAlignedBlockPtr(B, ptr, bid) IN
    [a \in DOMAIN M |->
        IF a >= p /\ a < p + GetBlockSize(B, bid) THEN Fill(bid) ELSE M[a]]

\* GetBlockPtr<T, true> followed by the write of the payload.
StampAndFill(B, M, ptr, bid) ==
    FillPayload(B, StampCanaries(B, M, ptr, bid), ptr, bid)

\* PopulateData asks for every block in write mode once and fills it
\* (storage.cpp:618-1133), here in the order of the block ids and in one step.
WriteBlocks ==
    /\ lpc = "write"
    /\ bytes' = StampAndFill(blocks,
                    StampAndFill(blocks,
                        StampAndFill(blocks, bytes, base, 0), base, 1), base, 2)
    /\ written' = [bid \in LayoutBlockIDs |-> "filled"]
    /\ lpc' = "written"
    /\ UNCHANGED <<blocks, base, result>>
    /\ UNCHANGED <<pvars, dvars>>

\* Something else writes over the first byte of canaries of one block:
\* the start canary, the end canary, or both.
CorruptCanaries(bid, start, end) ==
    /\ lpc = "written"
    /\ start \/ end
    /\ LET s == GetAlignedBlockPtr(blocks, base, bid) - SizeOfCanary
           e == GetBlockEnd(blocks, base, bid)
       IN  bytes' = [a \in DOMAIN bytes |->
                        IF (start /\ a = s) \/ (end /\ a = e) THEN 0 ELSE bytes[a]]
    /\ lpc' = "corrupted"
    /\ UNCHANGED <<blocks, base, result, written>>
    /\ UNCHANGED <<pvars, dvars>>

\* A reader asks for block bid in read mode.
ReadBlock(bid) ==
    /\ lpc \in {"written", "corrupted"}
    /\ result' = GetBlockPtrRead(blocks, bytes, base, bid)
    /\ lpc' = "read"
    /\ UNCHANGED <<blocks, base, bytes, written>>
    /\ UNCHANGED <<pvars, dvars>>

\* The addresses at which a reader maps the region.
ReaderBases == {1, 4, 8, 16}

\* The region as a process sees it that maps it at rbase: the byte the writer
\* put at offset k from its base is at offset k from rbase.
MappedAt(B, M, ptr, rbase) ==
    [a \in rbase .. (rbase + GetSizeOfLayout(B) - 1) |-> M[a - rbase + ptr]]

\* A reader that mapped the region at rbase asks for block bid in read mode.
ReadBlockAt(bid, rbase) ==
    /\ lpc = "written"
    /\ result' = [base |-> rbase,
                  block |-> GetBlockPtrRead(blocks,
                                MappedAt(blocks, bytes, base, rbase), rbase, bid)]
    /\ lpc' = "read_at"
    /\ UNCHANGED <<blocks, base, bytes, written>>
    /\ UNCHANGED <<pvars, dvars>>

NextLayout ==
    \/ WriteBlocks
    \/ \E bid \in LayoutBlockIDs, rbase \in ReaderBases : ReadBlockAt(bid, rbase)
    \/ \E bid \in LayoutBlockIDs, start, end \in BOOLEAN :
           CorruptCanaries(bid, start, end)
    \/ \E bid \in LayoutBlockIDs : ReadBlock(bid)

SpecLayout == InitLayout /\ [][NextLayout]_vars

\* ------------------------------------------- the write calls one by one
\* PopulateData asks for the pointer of a block in write mode
\* (shared_datatype.hpp:230-242): both canaries are stamped. The calls for
\* the blocks are taken in any order.
WriteBlock(bid) ==
    /\ lpc = "write"
    /\ written[bid] = "no"
    /\ bytes' = StampCanaries(blocks, bytes, base, bid)
    /\ written' = [written EXCEPT ![bid] = "ptr"]
    /\ UNCHANGED <<blocks, base, result, lpc>>
    /\ UNCHANGED <<pvars, dvars>>

\* PopulateData fills a block through the pointer it was given, at any time
\* after it got the pointer.
WritePayload(bid) ==
    /\ lpc = "write"
    /\ written[bid] = "ptr"
    /\ bytes' = FillPayload(blocks, bytes, base, bid)
    /\ written' = [written EXCEPT ![bid] = "filled"]
    /\ UNCHANGED <<blocks, base, result, lpc>>
    /\ UNCHANGED <<pvars, dvars>>

\* PopulateData returns when every block was asked for and filled
\* (storage.cpp:1133-1134).
PopulateDataReturns ==
    /\ lpc = "write"
    /\ \A bid \in LayoutBlockIDs : written[bid] = "filled"
    /\ lpc' = "written"
    /\ UNCHANGED <<blocks, base, bytes, result, written>>
    /\ UNCHANGED <<pvars, dvars>>

NextWrite ==
    \/ \E bid \in LayoutBlockIDs : WriteBlock(bid)
    \/ \E bid \in LayoutBlockIDs : WritePayload(bid)
    \/ PopulateDataReturns

\* Every layout and base, with the write calls and the payload writes of
\* PopulateData in every order.
SpecWrite == InitLayout /\ [][NextWrite]_vars


\* ================================================================= claims
Populated(i) == segs[i].status = "populated"

\* Positions of Storage::Run at which both monitor fields have been written.
PostUpdate == {"unlock", "notify", "mark_old", "wait_detach", "return"}

\* Positions of Storage::Run inside the file-locked part.
Locked == {"read_monitor", "remove_stale", "populate_layout", "allocate",
           "copy_layout", "populate_data", "lock", "write_region",
           "write_timestamp", "unlock", "notify", "mark_old", "wait_detach",
           "return"}

\* C1 (as stated): no client ever has a region mapped whose populate is
\* incomplete, however long it was delayed between reading the id and mapping.
C1_Original ==
    \A c \in Clients : cli[c].pc = "mapped" => Populated(cli[c].seg)

\* C1 (amended): a client that read the id from the monitor the name then
\* resolved to, and maps the very segment the id resolved to at that read,
\* never has a region mapped whose populate is incomplete.
C1_MappedReadSegmentPopulated ==
    \A c \in Clients :
        (cli[c].pc = "mapped" /\ cli[c].readCurrent /\ cli[c].seg = cli[c].readSeg)
            => Populated(cli[c].seg)

\* C1 witness: a client has mapped the segment it read from the live monitor
\* while a publisher is populating the other region.
C1_Witness ==
    \E c \in Clients, p \in Publishers :
        /\ cli[c].pc = "mapped" /\ cli[c].readCurrent
        /\ cli[c].seg = cli[c].readSeg
        /\ pub[p].pc = "populate_data"

\* C2: the monitor is written only after the layout copy and a successful
\* PopulateData, and the named monitor never names a region that is absent
\* or whose populate has not completed.
C2_MonitorNamesPopulated ==
    /\ \A p \in Publishers :
          pub[p].pc \in ({"write_region", "write_timestamp"} \cup PostUpdate)
              => Populated(pub[p].data_memory)
    /\ (monName # 0 /\ NamedMonitor.region # REGION_NONE)
          => /\ RegionExists(NamedMonitor.region)
             /\ Populated(shmKey[NamedMonitor.region])

\* C2 witness: a publisher has just written both monitor fields and the
\* monitor names the region it populated.
C2_Witness ==
    \E p \in Publishers :
        /\ pub[p].pc = "unlock"
        /\ NamedMonitor.region = pub[p].next_region
        /\ shmKey[pub[p].next_region] = pub[p].data_memory

\* C3: a region id is removed only by the file lock holder, and either as
\* the stale next region before the update (never the in-use one), or as the
\* old in-use region after both monitor fields were written.
C3_RemoveOrder ==
    [][\A r \in Regions :
          (shmKey[r] # 0 /\ shmKey'[r] = 0)
              => \E p \in Publishers :
                    /\ fileLock = p
                    /\ \/ /\ pub[p].pc = "remove_stale"
                          /\ r = pub[p].next_region
                          /\ r # pub[p].pre.region
                          /\ r # NamedMonitor.region
                       \/ /\ pub[p].pc = "mark_old"
                          /\ r = pub[p].pre.region
                          /\ Mon(p).region = pub[p].next_region
                          /\ Mon(p).timestamp = pub[p].next_timestamp
                          /\ NamedMonitor.region = pub[p].next_region
                          /\ r # pub[p].next_region]_vars

\* C3 witness: the old in-use region has been marked for removal after the
\* monitor update.
C3_Witness ==
    \E p \in Publishers :
        /\ pub[p].pc = "wait_detach"
        /\ segs[pub[p].in_use_shared_memory].removed
        /\ pub[p].in_use_shared_memory = pub[p].pre.seg

\* Positions of Storage::Run from the monitor update to the return.
FromUpdate == {"lock", "write_region", "write_timestamp"} \cup PostUpdate

\* C4 (as stated): a client that read {R, t} from the monitor just before a
\* publisher that had read the same {R, t} updates it, and that has released
\* the mutex, finds R existing and fully populated when it maps R, wherever
\* the publisher is in its update, Remove(R) and WaitForDetach steps.
C4_Original ==
    \A c \in Clients, p \in Publishers :
        ( /\ cli[c].pc \in {"remembered", "absent"}
          /\ cli[c].readCurrent
          /\ pub[p].pc \in FromUpdate /\ ~pub[p].timed_out
          /\ cli[c].region = pub[p].pre.region
          /\ cli[c].timestamp = pub[p].pre.timestamp
          /\ cli[c].readSeg = pub[p].pre.seg )
            => /\ cli[c].pc = "remembered"
               /\ RegionExists(cli[c].region)
               /\ Populated(shmKey[cli[c].region])

\* C4 (amended): from the read of R (from the live monitor) until the
\* publisher's Remove(R), R exists and is fully populated, so a map before
\* Remove(R) succeeds on a complete region; after Remove(R) the id no longer
\* resolves to that segment.
C4_ValidUntilRemove ==
    \A c \in Clients :
        (cli[c].pc = "remembered" /\ cli[c].readCurrent)
            => /\ cli[c].readSeg # 0
               /\ \/ /\ shmKey[cli[c].region] = cli[c].readSeg
                     /\ Populated(cli[c].readSeg)
                  \/ /\ segs[cli[c].readSeg].removed
                     /\ shmKey[cli[c].region] # cli[c].readSeg

\* C4 witness: the client remembers R, the publisher has updated the monitor
\* to the other region and has not yet removed R.
C4_Witness ==
    \E c \in Clients, p \in Publishers :
        /\ cli[c].pc = "remembered" /\ cli[c].readCurrent
        /\ pub[p].pc = "mark_old"
        /\ cli[c].region = pub[p].pre.region
        /\ cli[c].readSeg = pub[p].pre.seg
        /\ shmKey[cli[c].region] = cli[c].readSeg

\* C5: a segment is destroyed only with no process attached, a mapped
\* segment is never destroyed, and on the non-timeout path Storage::Run
\* reaches its return only when no client is attached to the old in-use
\* region, which is then marked for destruction with the publisher's own
\* handle still open.
C5_ReclaimOnlyDetached ==
    /\ \A i \in DOMAIN segs : segs[i].status = "destroyed" => segs[i].att = {}
    /\ \A c \in Clients :
          cli[c].pc = "mapped"
              => (c \in segs[cli[c].seg].att /\ segs[cli[c].seg].status # "destroyed")
    /\ \A p \in Publishers :
          (pub[p].pc = "return" /\ ~pub[p].timed_out /\ pub[p].pre.seg # 0)
              => /\ segs[pub[p].pre.seg].att = {p}
                 /\ segs[pub[p].pre.seg].removed
                 /\ segs[pub[p].pre.seg].status # "destroyed"

\* C5 witness: the old in-use region is marked for destruction while a
\* client still has it mapped; the segment is kept and the publisher is
\* blocked in WaitForDetach.
C5_Witness ==
    \E p \in Publishers, c \in Clients :
        /\ pub[p].pc = "wait_detach" /\ ~pub[p].timed_out
        /\ pub[p].in_use_shared_memory = pub[p].pre.seg
        /\ cli[c].pc = "mapped" /\ cli[c].seg = pub[p].pre.seg
        /\ segs[pub[p].pre.seg].removed
        /\ segs[pub[p].pre.seg].status = "populated"
        /\ ~ENABLED WaitForDetach(p)

\* C6: the next region is REGION_1 or REGION_2 and differs from the region
\* read from the monitor, and while the publisher stale-removes, creates and
\* writes the next region the monitor does not name it.
C6_NextDiffersFromInUse ==
    \A p \in Publishers :
        /\ pub[p].pc \in (Locked \ {"read_monitor"})
              => /\ pub[p].next_region \in Regions
                 /\ pub[p].next_region # pub[p].pre.region
        /\ pub[p].pc \in {"remove_stale", "populate_layout", "allocate",
                          "copy_layout", "populate_data", "lock"}
              => /\ NamedMonitor.region # pub[p].next_region
                 /\ NamedMonitor.region = pub[p].pre.region
        /\ pub[p].pc \in {"copy_layout", "populate_data"}
              => (NamedMonitor.region # REGION_NONE
                    => shmKey[NamedMonitor.region] # pub[p].data_memory)

\* C6 witness: a publisher that read REGION_2 from the monitor is populating
\* REGION_1.
C6_Witness ==
    \E p \in Publishers :
        /\ pub[p].pc = "populate_data"
        /\ pub[p].pre.region = REGION_2
        /\ pub[p].next_region = REGION_1

\* The monitor cell after n publishes from a cold start.
ExpectedRegion(n) == IF n % 2 = 1 THEN REGION_1 ELSE REGION_2

\* C7: from a cold start, after n consecutive successful publishes the
\* monitor is {REGION_1, n} for odd n and {REGION_2, n} for even n, and after
\* the first publish REGION_1 exists and REGION_2 does not.
C7_ColdStartSequence ==
    (hist.cold /\ hist.clean /\ fileLock = 0)
        => /\ hist.published = 0 => monName = 0
           /\ hist.published > 0
                 => /\ monName # 0
                    /\ NamedMonitor.region = ExpectedRegion(hist.published)
                    /\ NamedMonitor.timestamp = U32(hist.published)
                    /\ RegionExists(ExpectedRegion(hist.published))
           /\ hist.published = 1
                 => (RegionExists(REGION_1) /\ ~RegionExists(REGION_2))

\* C7 witness: two consecutive successful publishes from a cold start.
C7_Witness ==
    /\ hist.cold /\ hist.clean /\ fileLock = 0
    /\ hist.published = 2
    /\ NamedMonitor.region = REGION_2

\* C8 (as stated): when Storage::Run is about to return, the monitor
\* timestamp is strictly greater than the timestamp read before the publish.
C8_TimestampIncreases ==
    \A p \in Publishers :
        pub[p].pc = "return"
            => Less32(pub[p].pre.timestamp, Mon(p).timestamp)

\* C9: when Storage::Run is about to return and the monitor region read
\* before the publish was REGION_1 or REGION_2, the monitor region differs
\* from it.
C9_RegionChanges ==
    \A p \in Publishers :
        (pub[p].pc = "return" /\ pub[p].pre.region \in Regions)
            => /\ Mon(p).region # pub[p].pre.region
               /\ NamedMonitor.region # pub[p].pre.region

\* C9 witness: a publish that started from REGION_1 is about to return on
\* the timeout-recovery path.
C9_Witness ==
    \E p \in Publishers :
        /\ pub[p].pc = "return"
        /\ pub[p].pre.region = REGION_1
        /\ pub[p].timed_out

\* C10: at most one invocation is between acquiring the file lock and
\* returning, and it is the holder of the file lock.
C10_SingleLockHolder ==
    /\ \A p, q \in Publishers :
          (pub[p].pc \in Locked /\ pub[q].pc \in Locked) => p = q
    /\ \A p \in Publishers : pub[p].pc \in Locked <=> fileLock = p

\* C10 witness: one invocation waits for the file lock while another is
\* populating under it.
C10_Witness ==
    \E p, q \in Publishers :
        /\ pub[p].pc = "file_lock"
        /\ pub[q].pc = "populate_data"
        /\ fileLock = q

\* C8, restricted: whenever the timestamp read before the publish is below
\* 2^32 - 1, the monitor timestamp at the return is that timestamp plus one.
C8_BelowMaxIncrements ==
    \A p \in Publishers :
        (pub[p].pc = "return" /\ pub[p].pre.timestamp # U32Max)
            => /\ Less32(pub[p].pre.timestamp, Mon(p).timestamp)
               /\ Mon(p).timestamp = Inc32(pub[p].pre.timestamp)

\* C11: every publisher write to the monitor cell is performed while the
\* publisher holds the mutex of the monitor it writes, on every path.
C11_WritesUnderMutex ==
    \A p \in Publishers :
        pub[p].pc \in {"write_region", "write_timestamp"}
            => /\ pub[p].owns
               /\ Mon(p).mutex = p

\* C12: a client that reads the monitor cell under its mutex never reads it
\* between the publisher's two stores: it never sees the new region together
\* with a timestamp other than the new one.
C12_NoMixedPair ==
    [][ \A c \in Clients : \A p \in Publishers :
          ( /\ cli[c].pc = "idle"
            /\ cli'[c].pc = "locked"
            /\ pub[p].monitor = cli[c].monitor
            /\ pub[p].pc = "write_timestamp" )
              => ~ ( /\ cli'[c].region = pub[p].next_region
                     /\ cli'[c].timestamp # pub[p].next_timestamp ) ]_vars

\* C13, as claimed: a publish whose timed acquisition expired returns with
\* the named monitor equal to {REGION_1, 1}, whatever the stuck monitor held.
C13_Original ==
    \A p \in Publishers :
        (pub[p].pc = "return" /\ pub[p].timed_out)
            => /\ NamedMonitor.region = REGION_1
               /\ NamedMonitor.timestamp = U32(1)

\* C13, amended: a publish whose timed acquisition expired returns with a
\* re-created named monitor that holds the region and timestamp computed
\* from the stuck monitor: the other region and its timestamp plus one.
C13_TimeoutPublishesNext ==
    \A p \in Publishers :
        (pub[p].pc = "return" /\ pub[p].timed_out)
            => /\ pub[p].monitor = monName
               /\ NamedMonitor.region = NextRegion(pub[p].pre.region)
               /\ NamedMonitor.timestamp = Inc32(pub[p].pre.timestamp)
               /\ \A q \in Publishers : NamedMonitor.mutex # q

\* C13 witness: a timed-out publish returns after the stuck monitor held
\* REGION_1, so the re-created monitor names REGION_2.
C13_Witness ==
    \E p \in Publishers :
        /\ pub[p].pc = "return"
        /\ pub[p].timed_out
        /\ pub[p].pre.region = REGION_1
        /\ NamedMonitor.region = REGION_2

ThrowPoints == {"populate_layout", "populate_data"}

\* C14: when sizing or populating throws, the invocation ends with the
\* monitor cell as it was read, the in-use region bound to its populated
\* segment, no notification sent and the file lock released.
C14_AbortBeforeUpdate ==
    [][ \A p \in Publishers :
          (pub[p].pc \in ThrowPoints /\ pub'[p].pc = "idle")
              => /\ monName' = pub[p].monitor
                 /\ monitors'[monName'].region = pub[p].pre.region
                 /\ monitors'[monName'].timestamp = pub[p].pre.timestamp
                 /\ pub[p].pre.seg # 0
                       => /\ shmKey'[pub[p].pre.region] = pub[p].pre.seg
                          /\ segs'[pub[p].pre.seg].status = "populated"
                          /\ ~segs'[pub[p].pre.seg].removed
                 /\ ~pub[p].notified
                 /\ fileLock' # p ]_vars

\* C14 witness: a populate has thrown; its partially written next region
\* is still bound while the monitor names the other, populated region.
C14_Witness ==
    /\ \A p \in Publishers : pub[p].pc = "idle"
    /\ monName # 0
    /\ NamedMonitor.region \in Regions
    /\ \E i \in DOMAIN segs :
          /\ segs[i].status = "partial"
          /\ shmKey[segs[i].region] = i
          /\ segs[i].region # NamedMonitor.region
    /\ Populated(shmKey[NamedMonitor.region])

ExistingRegions(key) == {r \in Regions : key[r] # 0}

\* C15, as claimed: when the sizer fails the monitor cell is unchanged and
\* the set of existing regions is the same as before the call.
C15_Original ==
    [][ \A p \in Publishers :
          (pub[p].pc = "populate_layout" /\ pub'[p].pc = "idle")
              => /\ monitors'[monName'].region = pub[p].pre.region
                 /\ monitors'[monName'].timestamp = pub[p].pre.timestamp
                 /\ ExistingRegions(shmKey') = ExistingRegions(pub[p].pre.key)
        ]_vars

\* C15, amended: when the sizer fails the monitor cell is as it was read and
\* every region is bound as before the call, except that a stale next region
\* has been removed.
C15_OnlyStaleRemoved ==
    [][ \A p \in Publishers :
          (pub[p].pc = "populate_layout" /\ pub'[p].pc = "idle")
              => /\ monitors'[monName'].region = pub[p].pre.region
                 /\ monitors'[monName'].timestamp = pub[p].pre.timestamp
                 /\ shmKey' = [pub[p].pre.key EXCEPT ![pub[p].next_region] = 0]
                 /\ \A r \in Regions :
                       (r # pub[p].next_region /\ shmKey'[r] # 0)
                           => segs'[shmKey'[r]] = segs[shmKey[r]]
        ]_vars

\* C15 witness: the second invocation found REGION_2 left by a failed
\* populate, destroyed it, and ended before allocating a new segment.
C15_Witness ==
    /\ \A p \in Publishers : pub[p].pc = "idle"
    /\ fileLock = 0
    /\ hist.runs = 2
    /\ hist.published = 0
    /\ monName # 0
    /\ NamedMonitor.region = REGION_1
    /\ shmKey[REGION_2] = 0
    /\ Len(segs) = 2
    /\ segs[2].region = REGION_2
    /\ segs[2].status = "destroyed"

\* C16: a publish that found the next region already existing returns with
\* that stale segment removed, a fresh populated segment bound to the next
\* region, and the monitor naming it with the timestamp read plus one.
C16_StaleRecreated ==
    \A p \in Publishers :
        (pub[p].pc = "return" /\ pub[p].pre.key[pub[p].next_region] # 0)
            => /\ pub[p].next_region = NextRegion(pub[p].pre.region)
               /\ NamedMonitor.region = pub[p].next_region
               /\ NamedMonitor.timestamp = Inc32(pub[p].pre.timestamp)
               /\ shmKey[pub[p].next_region] = pub[p].data_memory
               /\ pub[p].data_memory # pub[p].pre.key[pub[p].next_region]
               /\ Populated(pub[p].data_memory)
               /\ segs[pub[p].pre.key[pub[p].next_region]].removed

\* C16 witness: after a failed publish left REGION_2 partially written,
\* a publish from {REGION_1, t} returns.
C16_Witness ==
    \E p \in Publishers :
        /\ pub[p].pc = "return"
        /\ ~hist.clean
        /\ pub[p].pre.region = REGION_1
        /\ pub[p].pre.key[REGION_2] # 0
        /\ NamedMonitor.region = REGION_2

\* Positions of PopulateData at or after the first checksum comparison.
FromHSGRCheck ==
    {"load_hsgr", "load_partition", "load_cells", "load_cell_metrics",
     "load_mldgr"}

AfterHSGRCheck ==
    {"load_partition", "load_cells", "load_cell_metrics", "load_mldgr",
     "load_overrides", "returned", "throw_load_mldgr"}

\* C17: PopulateData returns only if the connectivity checksum of .osrm.edges
\* equals that of .osrm.hsgr when it exists and that of .osrm.mldgr when it
\* exists; a mismatch throws; the checksum of .osrm.edges has been read
\* before either comparison.
C17_ChecksumsAgree ==
    LET turns == config.edges.connectivity_checksum
        hsgr_differs == /\ config.hsgr.exists
                        /\ config.hsgr.connectivity_checksum # turns
        mldgr_differs == /\ config.mldgr.exists
                         /\ config.mldgr.connectivity_checksum # turns
    IN /\ dpc \in FromHSGRCheck => turns_connectivity_checksum = turns
       /\ dpc = "returned" => (~hsgr_differs /\ ~mldgr_differs)
       /\ dpc = "throw_load_hsgr" => hsgr_differs
       /\ dpc = "throw_load_mldgr" => mldgr_differs
       /\ hsgr_differs => dpc \notin AfterHSGRCheck
       /\ mldgr_differs => dpc \notin {"load_overrides", "returned"}

\* C17 witness: PopulateData has returned with both graph files present and
\* a non-zero checksum.
C17_Witness ==
    /\ dpc = "returned"
    /\ config.hsgr.exists
    /\ config.mldgr.exists
    /\ config.edges.connectivity_checksum = 1
    /\ config.hsgr.connectivity_checksum = 1
    /\ config.mldgr.connectivity_checksum = 1

BeforeSizeHSGRDone == {"size_head", "size_hsgr", "throw_size_hsgr"}

BeforeSizeCellMetricsDone ==
    BeforeSizeHSGRDone \cup
        {"size_tail", "abort_size_tail", "size_partition", "size_cells",
         "size_cell_metrics", "throw_size_cell_metrics"}

\* C18: the sizer accepts the metric count n of the CH graph file and of the
\* cell metrics file exactly when n <= 8; a larger count throws before any
\* region is created; for an accepted n the first n metric blocks are sized
\* from the file (the CH filters from num_edges) and the other 8 - n blocks
\* have zero entries.
C18_MetricLimit ==
    LET h == config.hsgr
        m == config.cell_metrics
    IN /\ dpc = "throw_size_hsgr"
             => (h.exists /\ h.num_metrics > 8 /\ ~memory.exists)
       /\ dpc = "throw_size_cell_metrics"
             => (m.exists /\ m.num_metric > 8 /\ ~memory.exists)
       /\ (h.exists /\ dpc \notin BeforeSizeHSGRDone)
             => /\ h.num_metrics <= 8
                /\ \A index \in 0..7 :
                      /\ layout[CH_EDGE_FILTER(index)].num_entries =
                            (IF index < h.num_metrics THEN h.num_edges ELSE 0)
                      /\ layout[CH_EDGE_FILTER(index)].sets = 1
       /\ (m.exists /\ dpc \notin BeforeSizeCellMetricsDone)
             => /\ m.num_metric <= 8
                /\ \A index \in 0..7 :
                      /\ layout[MLD_CELL_WEIGHTS(index)].num_entries =
                            (IF index < m.num_metric
                             THEN weights_count(index) ELSE 0)
                      /\ layout[MLD_CELL_WEIGHTS(index)].sets = 1
                      /\ layout[MLD_CELL_DURATIONS(index)].num_entries =
                            (IF index < m.num_metric
                             THEN durations_count(index) ELSE 0)
                      /\ layout[MLD_CELL_DURATIONS(index)].sets = 1

\* C18 witness: a publish whose CH graph declares 8 metrics and whose cell
\* metrics file declares 3 has been sized and populated.
C18_Witness ==
    /\ dpc = "returned"
    /\ config.hsgr.exists
    /\ config.hsgr.num_metrics = 8
    /\ layout["CH_EDGE_FILTER_7"].num_entries = config.hsgr.num_edges
    /\ config.cell_metrics.exists
    /\ config.cell_metrics.num_metric = 3
    /\ layout["MLD_CELL_WEIGHTS_2"].num_entries = 3
    /\ layout["MLD_CELL_WEIGHTS_3"].num_entries = 0

\* C19: after PopulateData has returned, both canaries of every block equal
\* the tag, for every combination of present and absent optional inputs.
C19_AllCanariesWritten ==
    dpc = "returned"
        => \A b \in BlockIDs :
              /\ memory.start[b] = CANARY
              /\ memory.end[b] = CANARY

\* C20, as claimed: every canary written is 'O', 'R', 'S', 'M'.
C20_Original ==
    \A b \in BlockIDs :
        /\ memory.start[b] # ZeroBytes => memory.start[b] = <<79, 82, 83, 77>>
        /\ memory.end[b] # ZeroBytes => memory.end[b] = <<79, 82, 83, 77>>

\* C20, amended: every canary written is the four bytes 'O', 'S', 'R', 'M'
\* in that order, before and after the block.
C20_CanaryIsOSRM ==
    /\ \A b \in BlockIDs :
          /\ memory.start[b] # ZeroBytes => memory.start[b] = <<79, 83, 82, 77>>
          /\ memory.end[b] # ZeroBytes => memory.end[b] = <<79, 83, 82, 77>>
    /\ dpc = "load_common"
          => /\ memory.start["NAME_CHAR_DATA"] = <<79, 83, 82, 77>>
             /\ memory.end["NAME_CHAR_DATA"] = <<79, 83, 82, 77>>

\* C20 witness: GetBlockPtr has written the canaries of the first blocks.
C20_Witness ==
    /\ dpc = "load_common"
    /\ memory.exists
    /\ memory.start["NAME_CHAR_DATA"] # ZeroBytes
    /\ memory.end["NAME_CHAR_DATA"] # ZeroBytes

\* C19, restricted: when every optional input file is present, both
\* canaries of every block equal the tag after PopulateData has returned.
C19_AllInputsPresentStamped ==
    ( /\ dpc = "returned"
      /\ config.hsgr.exists /\ config.partition /\ config.cells
      /\ config.cell_metrics.exists /\ config.mldgr.exists )
        => \A b \in BlockIDs :
              /\ memory.start[b] = CANARY
              /\ memory.end[b] = CANARY

\* ------------------------------------------------ layout arithmetic claims
Payload(bid) == GetAlignedBlockPtr(blocks, base, bid)

PayloadEnd(bid) == GetBlockEnd(blocks, base, bid)

LastBlock == Len(blocks) - 1

StartCanaryHolds(bid) == EqualCanary(bytes, Payload(bid) - SizeOfCanary)

EndCanaryHolds(bid) == EqualCanary(bytes, PayloadEnd(bid))

\* C21: in a layout whose alignments are powers of two, the payload start
\* GetAlignedBlockPtr computes for a block is a multiple of the block's
\* alignment, so its offset from a base aligned the same way is one too; the
\* pointer a reader gets is that payload start. Empty blocks included.
C21_PayloadAligned ==
    lpc # "idle" =>
        \A bid \in LayoutBlockIDs :
            LET a == blocks[bid + 1].entry_align IN
            IsPowerOfTwo(a) =>
                /\ Payload(bid) % a = 0
                /\ base % a = 0 => (Payload(bid) - base) % a = 0
                /\ (lpc = "read" /\ result.bid = bid /\ result.thrown = "")
                       => result.ptr % a = 0

\* C21 witness: a reader got the pointer of an empty last block aligned to 8
\* behind two blocks of 3 bytes, in a region whose base is odd.
C21_Witness ==
    /\ lpc = "read"
    /\ result.thrown = ""
    /\ result.bid = 2
    /\ base = 1
    /\ blocks[3] = Block(0, 8)
    /\ blocks[1].byte_size = 3
    /\ blocks[2].byte_size = 3
    /\ result.ptr % 8 = 0
    /\ result.ptr > base

\* C22: the payload of block i > 0 starts no earlier than the payload of
\* block i - 1 plus its byte size plus two canaries, so payload starts never
\* decrease and a start canary begins at or behind the end of the end canary
\* before it; once stamped, all canaries stand side by side.
C22_BlocksInOrder ==
    lpc # "idle" =>
        \A bid \in LayoutBlockIDs \ {0} :
            /\ Payload(bid) >= Payload(bid - 1) + GetBlockSize(blocks, bid - 1)
                                   + 2 * SizeOfCanary
            /\ Payload(bid) >= Payload(bid - 1)
            /\ Payload(bid) - SizeOfCanary >= PayloadEnd(bid - 1) + SizeOfCanary
            /\ lpc = "written" =>
                   (StartCanaryHolds(bid) /\ EndCanaryHolds(bid - 1))

\* C22 witness: the canaries are stamped in a layout where padding separates
\* block 1 from block 0 and block 0 is empty.
C22_Witness ==
    /\ lpc = "written"
    /\ blocks[1].byte_size = 0
    /\ Payload(1) > PayloadEnd(0) + 2 * SizeOfCanary
    /\ StartCanaryHolds(1)
    /\ EndCanaryHolds(0)

\* C23: for alignments greater than zero and any base, the end canary of the
\* last block ends within GetSizeOfLayout() bytes of the base, so every byte
\* the write mode stamps lies inside the region of that size behind the base.
C23_EndWithinSize ==
    (lpc # "idle" /\ \A i \in DOMAIN blocks : blocks[i].entry_align > 0) =>
        /\ PayloadEnd(LastBlock) + SizeOfCanary - base <= GetSizeOfLayout(blocks)
        /\ \A bid \in LayoutBlockIDs :
               /\ Payload(bid) - SizeOfCanary >= base
               /\ PayloadEnd(bid) + SizeOfCanary <= base + GetSizeOfLayout(blocks)
        /\ \A a \in DOMAIN bytes :
               bytes[a] # 0 => (a >= base /\ a < base + GetSizeOfLayout(blocks))

\* C23 witness: the canaries are stamped in a layout of three blocks aligned
\* to 8 whose padding takes 13 of the 24 bytes the layout size allows for it.
C23_Witness ==
    /\ lpc = "written"
    /\ \A bid \in LayoutBlockIDs : blocks[bid + 1].entry_align = 8
    /\ GetSizeOfLayout(blocks) - (PayloadEnd(LastBlock) + SizeOfCanary - base)
           = 11
    /\ EndCanaryHolds(LastBlock)

\* C24: the read mode succeeds with the pointer of the write mode when both
\* canaries of the block hold the tag, as they do right after the write mode
\* ran; it fails naming the block and the start side when the start canary
\* differs, whether or not the end canary does, and the end side when only
\* the end canary differs.
C24_ReadChecksCanaries ==
    /\ lpc = "written" =>
           \A bid \in LayoutBlockIDs :
               GetBlockPtrRead(blocks, bytes, base, bid)
                   = [ptr |-> Payload(bid), thrown |-> "", bid |-> bid]
    /\ lpc = "read" =>
           LET bid == result.bid IN
           /\ (StartCanaryHolds(bid) /\ EndCanaryHolds(bid))
                  => (result.thrown = "" /\ result.ptr = Payload(bid))
           /\ ~StartCanaryHolds(bid)
                  => result.thrown = "Start canary of block corrupted."
           /\ (StartCanaryHolds(bid) /\ ~EndCanaryHolds(bid))
                  => result.thrown = "End canary of block corrupted."

\* C24 witness: a reader asked for a block both of whose canaries were
\* overwritten and got the start side reported.
C24_Witness ==
    /\ lpc = "read"
    /\ ~StartCanaryHolds(result.bid)
    /\ ~EndCanaryHolds(result.bid)
    /\ result.thrown = "Start canary of block corrupted."
    /\ result.bid = 1

\* ----------------------------------------------------------- sizer claims
Sized ==
    {"allocate", "load_head", "load_common", "load_hsgr", "load_partition",
     "load_cells", "load_cell_metrics", "load_mldgr", "load_overrides",
     "returned", "throw_load_hsgr", "throw_load_mldgr"}

\* C25: whichever optional inputs are present, a PopulateLayout that returns
\* has called SetBlock exactly once for each of the NUM_BLOCKS block ids, so
\* every block has an alignment above zero and the assertion of
\* GetSizeOfLayout holds; no block is ever set twice.
C25_EveryBlockSetOnce ==
    /\ \A b \in BlockIDs : layout[b].sets <= 1
    /\ dpc \in Sized =>
           /\ Cardinality({b \in BlockIDs : layout[b].sets = 1}) = NUM_BLOCKS
           /\ \A b \in BlockIDs : layout[b].entry_align > 0

\* C25 witness: the layout is sized for a dataset without any optional file.
C25_Witness ==
    /\ dpc = "allocate"
    /\ config = NoOptionalFiles
    /\ \A b \in BlockIDs : layout[b].sets = 1
    /\ NUM_BLOCKS = 73

CHBlocks ==
    {"HSGR_CHECKSUM", "CH_GRAPH_NODE_LIST", "CH_GRAPH_EDGE_LIST"}
        \cup {CH_EDGE_FILTER(index) : index \in 0 .. NUM_METRICS - 1}

PartitionBlocks == {"MLD_LEVEL_DATA", "MLD_PARTITION", "MLD_CELL_TO_CHILDREN"}

CellBlocks ==
    {"MLD_CELL_SOURCE_BOUNDARY", "MLD_CELL_DESTINATION_BOUNDARY", "MLD_CELLS",
     "MLD_CELL_LEVEL_OFFSETS"}

CellMetricBlocks ==
    {MLD_CELL_WEIGHTS(index) : index \in 0 .. NUM_METRICS - 1}
        \cup {MLD_CELL_DURATIONS(index) : index \in 0 .. NUM_METRICS - 1}

MLDGraphBlocks ==
    {"MLD_GRAPH_NODE_LIST", "MLD_GRAPH_EDGE_LIST", "MLD_GRAPH_NODE_TO_OFFSET"}

DataThrows ==
    {"throw_size_hsgr", "throw_size_cell_metrics", "throw_load_hsgr",
     "throw_load_mldgr"}

ZeroSized(bs) ==
    \A b \in bs : /\ layout[b].num_entries = 0
                  /\ layout[b].byte_size = 0
                  /\ layout[b].sets = 1

SizedFromFile(bs) ==
    \A b \in bs : /\ layout[b].num_entries = Entries(b)
                  /\ layout[b].byte_size = Entries(b) * layout[b].entry_size
                  /\ layout[b].byte_size > 0

MLDFilesOnly ==
    /\ ~config.hsgr.exists
    /\ config.partition
    /\ config.cells
    /\ config.cell_metrics.exists
    /\ config.cell_metrics.num_metric <= NUM_METRICS
    /\ config.mldgr.exists
    /\ config.mldgr.connectivity_checksum = config.edges.connectivity_checksum
    /\ config.geometry.number_of_rev_weight_blocks
           = config.geometry.number_of_segment_weight_blocks

\* C26: after sizing, the blocks of every absent optional input are set, with
\* zero entries and zero bytes. For a dataset without .osrm.hsgr whose MLD
\* files are all present, the CH blocks are zero-sized, the MLD blocks have
\* the sizes their files declare, MLD_LEVEL_DATA has one entry, and the
\* publish raises no error and goes on until PopulateData returns.
C26_AbsentInputsZeroSized ==
    /\ dpc \in Sized =>
           /\ ~config.hsgr.exists => ZeroSized(CHBlocks)
           /\ ~config.partition => ZeroSized(PartitionBlocks)
           /\ ~config.cells => ZeroSized(CellBlocks)
           /\ ~config.cell_metrics.exists => ZeroSized(CellMetricBlocks)
           /\ ~config.mldgr.exists => ZeroSized(MLDGraphBlocks)
    /\ MLDFilesOnly =>
           /\ dpc \notin DataThrows
           /\ dpc # "returned" => ENABLED NextData
           /\ dpc \in Sized =>
                  /\ ZeroSized(CHBlocks)
                  /\ SizedFromFile(PartitionBlocks \cup CellBlocks
                                       \cup MLDGraphBlocks)
                  /\ layout["MLD_LEVEL_DATA"].num_entries = 1
                  /\ \A index \in 0 .. NUM_METRICS - 1 :
                         /\ layout[MLD_CELL_WEIGHTS(index)].num_entries =
                               (IF index < config.cell_metrics.num_metric
                                THEN weights_count(index) ELSE 0)
                         /\ layout[MLD_CELL_DURATIONS(index)].num_entries =
                               (IF index < config.cell_metrics.num_metric
                                THEN durations_count(index) ELSE 0)

\* C26 witness: PopulateData has returned for a dataset without .osrm.hsgr
\* whose MLD files are present, two metrics in the cell metrics file.
C26_Witness ==
    /\ dpc = "returned"
    /\ MLDFilesOnly
    /\ config.cell_metrics.num_metric = 2
    /\ ZeroSized(CHBlocks)
    /\ layout["MLD_LEVEL_DATA"].num_entries = 1
    /\ layout["MLD_PARTITION"].num_entries = 2
    /\ memory.exists

\* ------------------------------------------------- exit and waiting claims
ExitPoints == {"populate_layout", "allocate", "populate_data", "return"}

\* C27: whenever Storage::Run ends, by returning or by an error raised while
\* sizing, allocating or populating, the file lock is free afterwards and the
\* publisher's scoped lock owns no monitor mutex; a publisher that owns the
\* mutex is inside the lock scope, and a publisher waiting for the file lock
\* while no invocation is under way can take it.
C27_ExitsReleaseLocks ==
    /\ \A p \in Publishers :
           /\ pub[p].pc \in ExitPoints => (~pub[p].owns /\ fileLock = p)
           /\ pub[p].pc = "idle" => (~pub[p].owns /\ fileLock # p)
           /\ pub[p].owns => /\ pub[p].pc \in {"write_region", "write_timestamp",
                                                "unlock"}
                             /\ Mon(p).mutex = p
    /\ (\A p \in Publishers : pub[p].pc \in {"idle", "file_lock"})
           => /\ fileLock = 0
              /\ \A q \in Publishers :
                     pub[q].pc = "file_lock" => ENABLED AcquireFileLock(q)

\* C27 witness: publisher 2 has taken the file lock after the invocation of
\* publisher 1 returned.
C27_Witness ==
    /\ hist.published = 1
    /\ hist.clean
    /\ fileLock = 2
    /\ pub[2].pc = "read_monitor"
    /\ pub[1].pc = "idle"
    /\ \A m \in DOMAIN monitors : monitors[m].mutex = 0

\* C28: at the lock, a publisher with max_wait < 0 can only take the free
\* mutex and never resets the monitor, however long the mutex is held; one
\* with max_wait >= 0 takes the mutex when it is free and resets the monitor
\* exactly when it is still held at the deadline; after a reset every step up
\* to the notification is enabled whatever happens to the old mutex.
C28_WaitAndReset ==
    \A p \in Publishers :
        /\ pub[p].timed_out => pub[p].max_wait >= 0
        /\ (pub[p].pc = "lock" /\ pub[p].max_wait < 0) =>
               /\ ~ENABLED TimedLockExpired(p)
               /\ ~ENABLED TimedLock(p)
               /\ ENABLED LockMonitor(p) <=> Mon(p).mutex = 0
        /\ (pub[p].pc = "lock" /\ pub[p].max_wait >= 0) =>
               /\ ~ENABLED LockMonitor(p)
               /\ ENABLED TimedLock(p) <=> Mon(p).mutex = 0
               /\ ENABLED TimedLockExpired(p) <=> Mon(p).mutex # 0
        /\ pub[p].timed_out =>
               /\ pub[p].pc \in {"write_region", "write_timestamp", "unlock",
                                 "notify", "mark_old", "return"}
               /\ pub[p].monitor = monName
               /\ ~pub[p].owns
               /\ pub[p].pc = "write_region" => ENABLED WriteRegion(p)
               /\ pub[p].pc = "write_timestamp" => ENABLED WriteTimestamp(p)
               /\ pub[p].pc = "unlock" => ENABLED Unlock(p)
               /\ pub[p].pc = "notify" => ENABLED NotifyAll(p)

\* C28 witness: a publisher with max_wait 0 has reset the monitor and written
\* the new pair while the mutex of the old monitor is still held, and the
\* other publisher, with max_wait < 0, is invoked and kept waiting.
C28_Witness ==
    /\ pub[1].timed_out
    /\ pub[1].max_wait = 0
    /\ pub[1].pc = "notify"
    /\ \E m \in DOMAIN monitors : m # monName /\ monitors[m].mutex # 0
    /\ monitors[monName].timestamp = pub[1].next_timestamp
    /\ pub[2].max_wait < 0
    /\ pub[2].pc = "file_lock"

\* C30: when a publish that did not time out found the monitor naming a
\* region that exists, then at its return that region no longer resolves and
\* only the publisher is attached to its segment, which the return destroys,
\* while the region the monitor names exists; the wait for detach is over as
\* soon as no client is attached to the old segment, and no client can attach
\* to it during the wait.
C30_OldRegionGone ==
    [][\A p \in Publishers :
          LET R == pub[p].pre.region
              old == pub[p].in_use_shared_memory
          IN /\ (pub[p].pc = "return" /\ ~pub[p].timed_out
                    /\ R # REGION_NONE /\ pub[p].pre.seg # 0) =>
                    /\ old = pub[p].pre.seg
                    /\ ~RegionExists(R)
                    /\ segs[old].removed
                    /\ segs[old].att = {p}
                    /\ pub'[p].pc = "idle" => segs'[old].status = "destroyed"
                    /\ Mon(p).region = pub[p].next_region
                    /\ RegionExists(Mon(p).region)
                    /\ Populated(shmKey[Mon(p).region])
             /\ pub[p].pc = "wait_detach" =>
                    /\ segs[old].att \subseteq {p} => ENABLED WaitForDetach(p)
                    /\ ENABLED WaitForDetach(p) => segs[old].att \subseteq {p}
                    /\ segs'[old].att \subseteq segs[old].att
                    /\ pub'[p].pc = "return" => segs[old].att \subseteq {p}
      ]_vars

\* C30 witness: a publish that found REGION_1 in use has waited for a client
\* to detach from it and has returned: REGION_1 is gone, its segment
\* destroyed, and the monitor names REGION_2, which exists.
C30_Witness ==
    /\ hist.published = 1
    /\ hist.clean
    /\ \A p \in Publishers : pub[p].pc = "idle"
    /\ ~RegionExists(REGION_1)
    /\ \E i \in DOMAIN segs : /\ segs[i].region = REGION_1
                               /\ segs[i].status = "destroyed"
    /\ NamedMonitor.region = REGION_2
    /\ RegionExists(REGION_2)
    /\ \E c \in Clients : cli[c].timestamp # NamedMonitor.timestamp

\* ------------------------------------------------------ notification claim
\* The monitors no timeout has created: the one the deployment started with,
\* or the first one created. Every reset appends a further monitor.
NeverReset(m) == m = 1

\* A publisher that has written the new timestamp to monitor m and has still
\* to call notify_all on it.
NotifyPending(m) ==
    \E p \in Publishers :
        pub[p].monitor = m /\ pub[p].pc \in {"unlock", "notify"}

MissedUpdate(c) ==
    /\ cli[c].pc = "waiting"
    /\ NeverReset(cli[c].monitor)
    /\ monitors[cli[c].monitor].timestamp # cli[c].timestamp

ObservedUpdate(c) ==
    /\ cli[c].pc = "locked"
    /\ cli[c].region = monitors[cli[c].monitor].region
    /\ cli[c].timestamp = monitors[cli[c].monitor].timestamp

NotifyAfterUpdate ==
    \A p \in Publishers :
        (pub[p].pc = "notify" /\ ~pub[p].timed_out) =>
            /\ Mon(p).region = pub[p].next_region
            /\ Mon(p).timestamp = pub[p].next_timestamp
            /\ ~pub[p].owns
            /\ Mon(p).mutex # p

NoLostWakeup ==
    \A c \in Clients : MissedUpdate(c) => NotifyPending(cli[c].monitor)

\* C29: on the path without timeout notify_all is called with the new pair
\* in the monitor and the mutex released; a client is never left waiting on
\* a changed timestamp without a notification still to come, and under fair
\* scheduling a waiting client whose timestamp has changed wakes, takes the
\* mutex and reads the pair the monitor holds.
C29_NoWakeupLost ==
    /\ [](NotifyAfterUpdate /\ NoLostWakeup)
    /\ \A c \in Clients : MissedUpdate(c) ~> ObservedUpdate(c)

\* C29 witness: a client that waited on the condition variable has woken
\* after a publish and read the new pair, while the publisher is past
\* notify_all.
C29_Witness ==
    /\ \E c \in Clients :
           /\ cli[c].waited
           /\ ObservedUpdate(c)
           /\ NeverReset(cli[c].monitor)
           /\ \E p \in Publishers :
                  /\ pub[p].notified
                  /\ ~pub[p].timed_out
                  /\ pub[p].monitor = cli[c].monitor
                  /\ cli[c].timestamp = pub[p].next_timestamp
                  /\ cli[c].region = pub[p].next_region

\* ------------------------------------------------- timeout recovery claim
\* C31: a publish whose timed acquisition expired notifies the re-created
\* monitor only: its notify_all wakes the clients waiting on that monitor and
\* leaves every client waiting on another monitor waiting; it never waits for
\* detach, holds no handle of the region that was in use, and neither removes
\* that region's id nor marks its segment for removal.
C31_TimeoutNotifiesNewMonitorOnly ==
    [][\A p \in Publishers :
          pub[p].timed_out =>
              /\ pub[p].monitor = monName
              /\ pub[p].in_use_region = REGION_NONE
              /\ pub[p].in_use_shared_memory = 0
              /\ pub[p].pc # "wait_detach"
              /\ pub'[p].pc # "wait_detach"
              /\ \A c \in Clients :
                     (cli[c].pc = "waiting" /\ cli[c].monitor # pub[p].monitor)
                         => cli'[c] = cli[c]
              /\ (pub[p].pc = "notify" /\ pub'[p].pc = "mark_old") =>
                     \A c \in Waiters(pub[p].monitor) : cli'[c].pc = "woken"
              /\ pub[p].pre.seg # 0 =>
                     /\ shmKey'[pub[p].pre.region] = shmKey[pub[p].pre.region]
                     /\ segs'[pub[p].pre.seg].removed
                            = segs[pub[p].pre.seg].removed
      ]_vars

\* C31 witness: a publish that reset the monitor is about to return; the
\* client still waits on the prior monitor, and the region that was in use
\* still exists unmarked.
C31_Witness ==
    \E p \in Publishers :
        /\ pub[p].timed_out
        /\ pub[p].notified
        /\ pub[p].pc = "return"
        /\ pub[p].pre.seg # 0
        /\ shmKey[pub[p].pre.region] = pub[p].pre.seg
        /\ ~segs[pub[p].pre.seg].removed
        /\ \E c \in Clients : /\ cli[c].pc = "waiting"
                               /\ cli[c].monitor # monName

\* ------------------------------------------------------ layout copy claim
\* C32: the region is created with sizeof(layout) + GetSizeOfLayout() bytes
\* and the layout is copied to its start before anything is populated; from
\* then until PopulateData ends the layout the populator works with stays
\* equal, block for block, to the copy at the start of the region, and no
\* canary is stamped before the copy is there.
C32_DescriptorIsLayout ==
    /\ memory.exists <=> dpc \in Sized \ {"allocate"}
    /\ memory.exists =>
           /\ memory.size = NUM_BLOCKS * SizeOfBlock
                              + GetSizeOfLayout(BlocksOf(layout))
           /\ memory.descriptor = Bytewise(layout)
           /\ \A b \in BlockIDs : layout[b].sets = 1
    /\ ~memory.exists =>
           \A b \in BlockIDs : memory.start[b] = ZeroBytes
                                /\ memory.end[b] = ZeroBytes

\* C32 witness: PopulateData has returned for a dataset with every optional
\* file; the copy in the region holds the sizes the files declared.
C32_Witness ==
    /\ dpc = "returned"
    /\ config.hsgr.exists /\ config.partition /\ config.cells
    /\ config.cell_metrics.exists /\ config.mldgr.exists
    /\ memory.descriptor["CH_GRAPH_EDGE_LIST"].num_entries = 3
    /\ memory.descriptor["MLD_PARTITION"].byte_size = 8
    /\ memory.descriptor["NAME_CHAR_DATA"].entry_align = 1
    /\ memory.size > NUM_BLOCKS * (SizeOfBlock + 2 * SizeOfCanary)
    /\ memory.start["MLD_PARTITION"] = CANARY

\* -------------------------------------------------- geometry cross-check
BeforeSizeTailDone ==
    BeforeSizeHSGRDone \cup {"size_tail", "abort_size_tail"}

\* C33: when the geometry file declares a reverse weight block count other
\* than the forward one, the sizer fails and no layout comes out of it;
\* otherwise both weight blocks are sized with the common count.
C33_SizerCrossChecks ==
    LET g == config.geometry
        differ == g.number_of_rev_weight_blocks
                      # g.number_of_segment_weight_blocks
    IN /\ differ => dpc \in BeforeSizeTailDone
       /\ (~differ /\ dpc \notin BeforeSizeTailDone) =>
              /\ layout["GEOMETRIES_FWD_WEIGHT_LIST"].num_entries
                     = g.number_of_segment_weight_blocks
              /\ layout["GEOMETRIES_REV_WEIGHT_LIST"].num_entries
                     = g.number_of_rev_weight_blocks

\* -------------------------------------------------------- file lock claims
\* The positions of Storage::Run between its read of the monitor and the
\* first store of the update.
ReadNotYetWritten ==
    {"remove_stale", "populate_layout", "allocate", "copy_layout",
     "populate_data", "lock", "write_region"}

OtherRegion(region) == IF region = REGION_1 THEN REGION_2 ELSE REGION_1

\* C34: a publisher between its read of the monitor and its update holds the
\* file lock, and the monitor still holds the pair it read; on the path
\* without timeout the update therefore stores the region other than the one
\* the monitor holds at that moment (REGION_1 for REGION_NONE) and that
\* moment's timestamp plus one, in 32 bit arithmetic.
C34_UpdateFromCurrentPair ==
    [][\A p \in Publishers :
          (pub[p].pc \in ReadNotYetWritten /\ ~pub[p].timed_out) =>
              /\ fileLock = p
              /\ Mon(p).region = pub[p].pre.region
              /\ Mon(p).timestamp = pub[p].pre.timestamp
              /\ (pub[p].pc = "write_region" /\ pub'[p].pc = "write_timestamp")
                     => /\ monitors'[pub[p].monitor].region
                              = OtherRegion(Mon(p).region)
                        /\ pub[p].next_timestamp = Inc32(Mon(p).timestamp)
                        /\ monitors'[pub[p].monitor].timestamp
                              = Mon(p).timestamp
              /\ (pub'[p].pc = "unlock" /\ pub[p].pc = "write_timestamp")
                     => monitors'[pub[p].monitor].timestamp
                            = pub[p].next_timestamp
      ]_vars

\* C34 witness: publisher 1 has updated the monitor from {REGION_1, t} to
\* {REGION_2, t + 1} under the mutex while publisher 2 waits for the file
\* lock.
C34_Witness ==
    /\ pub[1].pc = "unlock"
    /\ ~pub[1].timed_out
    /\ pub[1].owns
    /\ pub[1].pre.region = REGION_1
    /\ Mon(1).region = REGION_2
    /\ Mon(1).timestamp = Inc32(pub[1].pre.timestamp)
    /\ pub[2].pc = "file_lock"

\* The names and the contents the publishers give the monitor and the regions.
PublishedState ==
    << monName, shmKey, Len(segs), Len(monitors),
       [m \in DOMAIN monitors |-> << monitors[m].region, monitors[m].timestamp >>],
       [i \in DOMAIN segs |-> segs[i].removed] >>

\* C35: a publisher in WaitForDetach holds the file lock; every other
\* publisher is idle or waits for the file lock and cannot take it; the wait
\* goes on for as long as a client is attached to the old segment, and while
\* it goes on no monitor is created, read by a publisher or written, and no
\* region is created, populated or removed (a segment already marked for
\* removal is destroyed when its last client detaches).
C35_FileLockHeldThroughWait ==
    [][\A p \in Publishers :
          pub[p].pc = "wait_detach" =>
              /\ fileLock = p
              /\ \A q \in Publishers \ {p} :
                     /\ pub[q].pc \in {"idle", "file_lock"}
                     /\ ~ENABLED AcquireFileLock(q)
              /\ ~DetachSeen(p) => ~ENABLED WaitForDetach(p)
              /\ pub'[p].pc = "wait_detach" =>
                     /\ PublishedState' = PublishedState
                     /\ \A i \in DOMAIN segs :
                            \/ segs'[i].status = segs[i].status
                            \/ /\ segs'[i].status = "destroyed"
                               /\ segs[i].removed
                     /\ fileLock' = p
                     /\ \A q \in Publishers \ {p} :
                            pub'[q].pc \in {"idle", "file_lock"}
      ]_vars

\* C35 witness: publisher 1 is kept in WaitForDetach by the client, which
\* has the old region mapped, and publisher 2 has been invoked and waits for
\* the file lock.
C35_Witness ==
    /\ pub[1].pc = "wait_detach"
    /\ ~DetachSeen(1)
    /\ \E c \in Clients : /\ cli[c].pc = "mapped"
                           /\ cli[c].seg = pub[1].in_use_shared_memory
    /\ pub[2].pc = "file_lock"
    /\ fileLock = 1

\* ---------------------------------------------------- block overlap claims
\* The addresses the write mode and the payload write touch for block bid:
\* the start canary, the payload and the end canary.
BlockBytes(bid) ==
    (Payload(bid) - SizeOfCanary) .. (PayloadEnd(bid) + SizeOfCanary - 1)

PowerOfTwoLayout == \A i \in DOMAIN blocks : IsPowerOfTwo(blocks[i].entry_align)

PayloadHolds(bid) ==
    \A a \in Payload(bid) .. (PayloadEnd(bid) - 1) : bytes[a] = Fill(bid)

\* C36: in a layout whose alignments are powers of two, the bytes of two
\* different blocks (canaries and payload) share no address, so in whatever
\* order the blocks are asked for in write mode and filled, a block that
\* was given out keeps both canaries and a block that was filled keeps its
\* payload, and a block not yet asked for is untouched.
C36_BlocksNeverOverlap ==
    (lpc # "idle" /\ PowerOfTwoLayout) =>
        /\ \A b1, b2 \in LayoutBlockIDs :
               b1 # b2 => BlockBytes(b1) \cap BlockBytes(b2) = {}
        /\ \A bid \in LayoutBlockIDs :
               /\ written[bid] \in {"ptr", "filled"}
                      => (StartCanaryHolds(bid) /\ EndCanaryHolds(bid))
               /\ written[bid] = "filled" => PayloadHolds(bid)
               /\ written[bid] = "ptr"
                      => \A a \in Payload(bid) .. (PayloadEnd(bid) - 1) :
                             bytes[a] = 0
               /\ written[bid] = "no"
                      => \A a \in BlockBytes(bid) : bytes[a] = 0

\* C36 witness: three blocks of 3 bytes follow each other without padding;
\* blocks 0 and 1 were filled and block 2 was asked for in write mode, which
\* stamped its start canary right behind the end canary of block 1, and the
\* canaries and the payload of block 1 stand.
C36_Witness ==
    /\ lpc = "write"
    /\ PowerOfTwoLayout
    /\ \A i \in DOMAIN blocks : blocks[i].byte_size = 3
    /\ Payload(1) - SizeOfCanary = PayloadEnd(0) + SizeOfCanary
    /\ Payload(2) - SizeOfCanary = PayloadEnd(1) + SizeOfCanary
    /\ written = [bid \in LayoutBlockIDs |->
                     IF bid = 2 THEN "ptr" ELSE "filled"]
    /\ StartCanaryHolds(1) /\ EndCanaryHolds(1) /\ PayloadHolds(1)
    /\ StartCanaryHolds(2) /\ EndCanaryHolds(0)

\* ------------------------------------------------------- relocation claims
\* The address is a multiple of the alignment of every block of the layout.
AlignedBase(ptr) == \A i \in DOMAIN blocks : ptr % blocks[i].entry_align = 0

\* C37: in a layout of blocks made by make_block, whose alignments are
\* powers of two, the offset of the payload start and of the end canary of a
\* block from the base is the same at any two bases that are multiples of
\* all alignments of the layout, so a reader that maps the region at another
\* such address than the writer finds both canaries of every block and gets
\* the payload at the offset the writer used.
C37_OffsetsIndependentOfBase ==
    (lpc # "idle" /\ PowerOfTwoLayout /\ AlignedBase(base)) =>
        /\ \A rbase \in ReaderBases, bid \in LayoutBlockIDs :
               AlignedBase(rbase) =>
                   /\ GetAlignedBlockPtr(blocks, rbase, bid) - rbase
                          = Payload(bid) - base
                   /\ GetBlockEnd(blocks, rbase, bid) - rbase
                          = PayloadEnd(bid) - base
        /\ (lpc = "read_at" /\ AlignedBase(result.base)) =>
               /\ result.block.thrown = ""
               /\ result.block.ptr - result.base
                      = Payload(result.block.bid) - base

\* C37 witness: the writer filled a layout with a block aligned to 8 at base
\* 0, and a reader that mapped the region at 16 got the last block at the
\* writer's offset, behind padding.
C37_Witness ==
    /\ lpc = "read_at"
    /\ base = 0
    /\ result.base = 16
    /\ blocks[1] = Block(3, 4)
    /\ blocks[2] = Block(3, 8)
    /\ blocks[3] = Block(3, 8)
    /\ result.block.bid = 2
    /\ result.block.thrown = ""
    /\ result.block.ptr - 16 = Payload(2)
    /\ Payload(2) > PayloadEnd(1) + 2 * SizeOfCanary

\* ------------------------------------------------------ stale region claims
\* The positions of Storage::Run behind the removal of a stale next region.
StaleRemoved ==
    {"populate_layout", "allocate", "copy_layout", "populate_data", "lock",
     "write_region", "write_timestamp", "unlock", "notify", "mark_old",
     "wait_detach", "return"}

\* The segment that held the region when the publishes started.
LeftBehind(region) == segs[region]

\* C38: with both regions left behind and a monitor that names neither,
\* every publish that gets past its start has removed the region left under
\* the key it publishes to; the first publish that succeeds has removed
\* REGION_1 and names it, the second one has removed REGION_2 as well,
\* whatever failed or died in between; and never more than two segments
\* exist that are not marked for removal.
C38_StaleRegionsRemoved ==
    /\ \A p \in Publishers :
           pub[p].pc \in StaleRemoved
               => /\ LeftBehind(pub[p].next_region).removed
                  /\ pub[p].next_region = NextRegion(pub[p].pre.region)
    /\ hist.published >= 1 => LeftBehind(REGION_1).removed
    /\ hist.published >= 2 => LeftBehind(REGION_2).removed
    /\ Cardinality({i \in DOMAIN segs : ~segs[i].removed}) <= 2

\* C38 witness: two publishes succeeded; the first removed the REGION_1 left
\* behind at its start and left REGION_2, the second removed that one.
C38_Witness ==
    /\ hist.published = 2
    /\ hist.runs = 2
    /\ LeftBehind(REGION_1).removed
    /\ LeftBehind(REGION_2).removed
    /\ Len(segs) = 4
    /\ NamedMonitor.region = REGION_2
    /\ \A p \in Publishers : pub[p].pc = "idle"

====
